---- MODULE Spec2Model ----
(***************************************************************************)
(* fsbridge: the atomic write sessions of atomic.py (AtomicFileWrapper,    *)
(* AtomicTextIOWrapper) over a backend file store, and the routing layer   *)
(* of mapping.py (FSSpecMapping).                                          *)
(*                                                                         *)
(* Paths, modes, prefixes and suffixes are sequences of one-character      *)
(* strings, so that dirname, basename, startswith and the "in mode" tests  *)
(* are computed as the code computes them.  File contents are sequences of *)
(* byte values.                                                            *)
(*                                                                         *)
(* The backend store follows the local file system the tests run on: a     *)
(* path names an inode, an open stream keeps its inode across rm and mv,   *)
(* and a write reaches the inode at once (no buffering below the stream).  *)
(* Every backend call and every stream call may raise.                     *)
(***************************************************************************)
EXTENDS Integers, Sequences, FiniteSets, TLC

VARIABLES
    fsys,       \* backend store: existing path -> inode number
    data,       \* inode number -> content
    sess,       \* session id -> the fields of the wrapper object(s)
    last,       \* the most recent call on a session and what its caller saw
    mp,         \* the FSSpecMapping object: path mapper kind, _extensions
    mcall,      \* the most recent call on the mapping and what it did
    lfs,        \* the local file system outside the backend: path -> content
    attrs,      \* the patchable attributes of builtins, os, os.path,
                \* pathlib.Path and shutil: attribute -> the object bound to it
    ctx,        \* the FSBridgeContext objects: flags, _originals, history
    dual        \* the dual-path call in progress on the mapping: its frame

vars == <<fsys, data, sess, last, mp, mcall, lfs, attrs, ctx, dual>>

----------------------------------------------------------------------------
(* Bounds of the model. *)

\* writes (and explicit flushes) a caller issues on one session
MaxWrites == 2
\* times one session may enter the commit block of close()
MaxCommitRuns == 2
\* times one FSBridgeContext object may be entered
MaxEnters == 2
\* bytes one stream read of a chunked transfer asks for; the model's scale
\* of the 1024 * 1024 of mapping.py 410 and 419
ChunkSize == 2
\* longest content of a file that is copied
MaxLen == 4

----------------------------------------------------------------------------
(* Strings as sequences of characters. *)

\* c in s  (Python: "w" in mode)
InStr(c, s) == \E i \in 1..Len(s) : s[i] = c

\* s.replace(c, "")
RECURSIVE RemoveChar(_, _)
RemoveChar(s, c) ==
    IF s = <<>> THEN <<>>
    ELSE IF Head(s) = c THEN RemoveChar(Tail(s), c)
    ELSE <<Head(s)>> \o RemoveChar(Tail(s), c)

\* s.rfind("/") + 1 : the index of the last separator, 0 when there is none
LastSlash(s) ==
    IF \E i \in 1..Len(s) : s[i] = "/"
    THEN CHOOSE i \in 1..Len(s) : s[i] = "/" /\ \A j \in (i+1)..Len(s) : s[j] # "/"
    ELSE 0

\* s.rstrip("/")
RECURSIVE RStripSlash(_)
RStripSlash(s) ==
    IF s # <<>> /\ s[Len(s)] = "/" THEN RStripSlash(SubSeq(s, 1, Len(s) - 1)) ELSE s

\* s.lstrip("/")
RECURSIVE LStripSlash(_)
LStripSlash(s) ==
    IF s # <<>> /\ Head(s) = "/" THEN LStripSlash(Tail(s)) ELSE s

\* s.startswith(p)
StartsWith(s, p) == Len(p) <= Len(s) /\ SubSeq(s, 1, Len(p)) = p

AllSlashes(s) == \A i \in 1..Len(s) : s[i] = "/"

\* os.path.dirname (posixpath): the head up to the last separator, its
\* trailing separators stripped unless it consists of separators only
Dirname(p) ==
    LET head == SubSeq(p, 1, LastSlash(p))
    IN IF head # <<>> /\ ~AllSlashes(head) THEN RStripSlash(head) ELSE head

\* os.path.basename (posixpath): what follows the last separator
Basename(p) == SubSeq(p, LastSlash(p) + 1, Len(p))

----------------------------------------------------------------------------
(* Program constants and the inputs the model draws from. *)

DefaultSuffix == <<".", "t", "m", "p">>
DefaultPrefix == <<".">>

\* the target path of the sessions
TargetPath == <<"/", "d", "/", "f">>

\* the content a pre-existing target holds ("o")
OldContent == <<111>>

ModeWB == <<"w", "b">>
ModeAB == <<"a", "b">>
ModeRB == <<"r", "b">>
ModeW  == <<"w">>
ModeWT == <<"w", "t">>

BinaryModes == {ModeWB, ModeAB, ModeRB}
TextModes == {ModeW, ModeWT}

\* what one write call hands over: bytes to a binary session, characters to a
\* text session
BinChunks == {<<97>>, <<98>>}
TextChunks == {<<"a">>, <<"eacute">>, <<"nl">>}

\* the text layer's encoder (utf-8, newline translation of a POSIX host):
\* one character becomes one or more bytes
EncodeChar(c) ==
    CASE c = "a" -> <<97>>
      [] c = "eacute" -> <<195, 169>>
      [] c = "nl" -> <<10>>
      [] OTHER -> <<63>>

RECURSIVE Encode(_)
Encode(t) == IF t = <<>> THEN <<>> ELSE EncodeChar(Head(t)) \o Encode(Tail(t))

----------------------------------------------------------------------------
(* The backend store. *)

Exists(p) == p \in DOMAIN fsys

Content(p) == data[fsys[p]]

NewInode == Len(data) + 1

\* the bytes of c from position pos on replaced by chunk (a stream write at
\* the stream's position); a gap is filled with zero bytes
WriteAt(c, pos, chunk) ==
    LET n == IF Len(c) > pos + Len(chunk) THEN Len(c) ELSE pos + Len(chunk)
    IN [i \in 1..n |->
          IF i > pos /\ i <= pos + Len(chunk) THEN chunk[i - pos]
          ELSE IF i <= Len(c) THEN c[i]
          ELSE 0]

\* store after rm(p)
FsRm(p) == [q \in (DOMAIN fsys) \ {p} |-> fsys[q]]

\* store after mv(src, dst): dst names src's inode, src is gone
FsMv(src, dst) ==
    [q \in ((DOMAIN fsys) \ {src}) \cup {dst} |-> IF q = dst THEN fsys[src] ELSE fsys[q]]

----------------------------------------------------------------------------
(* AtomicFileWrapper / AtomicTextIOWrapper: the session objects. *)

Sessions == {1, 2}

\* AtomicFileWrapper.__init__: the temp path of a target
TempPath(path, prefix, suffix) ==
    Dirname(path) \o <<"/">> \o prefix \o Basename(path) \o suffix

\* AtomicTextIOWrapper.__init__: the mode handed to the byte session
TextToBinaryMode(mode) == RemoveChar(mode, "t") \o <<"b">>

\* AtomicFileWrapper.close: "Only move the file if we were writing"
CommitsOnClose(mode) == InStr("w", mode) \/ InStr("a", mode) \/ InStr("+", mode)

\* the target as a reader finds it: <<present, content>>
Snapshot(p) == IF Exists(p) THEN <<TRUE, Content(p)>> ELSE <<FALSE, <<>>>>

NoSession ==
    [kind |-> "none", path |-> <<>>, mode |-> <<>>, suffix |-> <<>>, prefix |-> <<>>,
     temp_path |-> <<>>, file |-> 0, pos |-> 0, fclosed |-> FALSE, closed |-> FALSE,
     pending |-> <<>>, pc |-> "ready", err |-> "none", ferr |-> "none",
     \* history, not read by the code
     pre |-> <<FALSE, <<>>>>, written |-> <<>>, nwrites |-> 0, ncommit |-> 0,
     nrm |-> 0, nmv |-> 0, removed |-> FALSE, cleanup |-> "none", result |-> "none"]

NoCall ==
    [op |-> "none", exc |-> FALSE, seen |-> "none", wasClosed |-> FALSE, tick |-> FALSE,
     errors |-> FALSE]

\* what a caller sees when a call raised
Errors == {"open", "write", "ValueError", "fileclose", "exists", "rm", "mv", "cleanup"}

\* a call on session s begins
Enter(s, op, exc) ==
    [op |-> op, exc |-> exc, seen |-> "running", wasClosed |-> sess[s].closed,
     tick |-> ~last[s].tick, errors |-> last[s].errors]

\* a call on session s begins and ends in one step; its caller sees `seen`
Call(s, op, exc, seen) ==
    [Enter(s, op, exc) EXCEPT !.seen = seen, !.errors = @ \/ seen \in Errors]

\* the call in progress on session s ends; its caller sees `seen`
Return(s, seen) == [last EXCEPT ![s].seen = seen, ![s].errors = @ \/ seen \in Errors]

Ready(s) == sess[s].kind # "none" /\ sess[s].pc = "ready"

\* a stream write of chunk through session s's stream
StreamWrite(s, chunk) ==
    LET at == IF InStr("a", sess[s].mode) THEN Len(data[sess[s].file]) ELSE sess[s].pos
    IN [data EXCEPT ![sess[s].file] = WriteAt(@, at, chunk)]

StreamPos(s, chunk) ==
    (IF InStr("a", sess[s].mode) THEN Len(data[sess[s].file]) ELSE sess[s].pos) + Len(chunk)

\* atomic.py 20-35 (and 99-119 for a text session): compute the temp path
\* and open it on the backend with the byte mode
OpenAt(s, kinds, bmodes, oks, path, prefix, suffix) ==
    /\ sess[s].kind = "none"
    /\ \E kind \in kinds, ok \in oks :
       \E m \in (IF kind = "text" THEN TextModes ELSE bmodes) :
         LET mode == IF kind = "text" THEN TextToBinaryMode(m) ELSE m
             temp == TempPath(path, prefix, suffix)
             opens == ok /\ (Exists(temp) \/ InStr("w", mode) \/ InStr("a", mode))
             ino == IF Exists(temp) THEN fsys[temp] ELSE NewInode
         IN IF ~opens
            THEN /\ last' = [last EXCEPT ![s] = Call(s, "open", FALSE, "open")]
                 /\ UNCHANGED <<fsys, data, sess>>
            ELSE /\ fsys' = [q \in (DOMAIN fsys) \cup {temp} |->
                               IF q = temp THEN ino ELSE fsys[q]]
                 /\ data' = IF ~Exists(temp) THEN Append(data, <<>>)
                            ELSE IF InStr("w", mode) THEN [data EXCEPT ![ino] = <<>>]
                            ELSE data
                 /\ sess' = [sess EXCEPT ![s] =
                               [NoSession EXCEPT !.kind = kind, !.path = path,
                                  !.mode = mode, !.suffix = suffix,
                                  !.prefix = prefix, !.temp_path = temp,
                                  !.file = ino, !.pre = Snapshot(path)]]
                 /\ last' = [last EXCEPT ![s] = Call(s, "open", FALSE, "none")]
    /\ UNCHANGED <<mp, mcall, lfs, attrs, ctx, dual>>

\* a session for the target of the model, with the default prefix and suffix
Open(s, kinds, bmodes, oks) ==
    OpenAt(s, kinds, bmodes, oks, TargetPath, DefaultPrefix, DefaultSuffix)

\* the targets, prefixes and suffixes callers pass: a target in a directory,
\* in the root, in a relative directory, with no directory, with a trailing
\* separator
TargetPaths ==
    {TargetPath, <<"/", "f">>, <<"d", "/", "f">>, <<"f">>, <<"/", "d", "/", "e", "/", "f">>,
     <<"/", "d", "/", "/", "f">>, <<"/", "d", "/">>, <<"f", ".", "g">>}
TempPrefixes == {DefaultPrefix, <<>>, <<"_", "_">>}
TempSuffixes == {DefaultSuffix, <<>>, <<"~">>}

\* a session is made for any target, prefix and suffix
OpenAny ==
    \E path \in TargetPaths, prefix \in TempPrefixes, suffix \in TempSuffixes :
      OpenAt(1, {"binary", "text"}, BinaryModes, BOOLEAN, path, prefix, suffix)

\* atomic.py 37-39: AtomicFileWrapper.write
WriteBinary(s, chunks, oks) ==
    /\ Ready(s) /\ sess[s].kind = "binary"
    /\ sess[s].nwrites < MaxWrites
    /\ \E chunk \in chunks, ok \in oks :
         IF sess[s].fclosed
         THEN /\ last' = [last EXCEPT ![s] = Call(s, "write", FALSE, "ValueError")]
              /\ sess' = [sess EXCEPT ![s].nwrites = @ + 1]
              /\ UNCHANGED data
         ELSE IF ~ok \/ ~CommitsOnClose(sess[s].mode)
         THEN /\ last' = [last EXCEPT ![s] = Call(s, "write", FALSE, "write")]
              /\ sess' = [sess EXCEPT ![s].nwrites = @ + 1]
              /\ UNCHANGED data
         ELSE /\ data' = StreamWrite(s, chunk)
              /\ sess' = [sess EXCEPT ![s].pos = StreamPos(s, chunk),
                                      ![s].written = @ \o chunk,
                                      ![s].nwrites = @ + 1]
              /\ last' = [last EXCEPT ![s] = Call(s, "write", FALSE, "none")]
    /\ UNCHANGED <<fsys, mp, mcall, lfs, attrs, ctx, dual>>

\* atomic.py 121-123: AtomicTextIOWrapper.write; the text layer encodes the
\* characters and keeps the bytes pending until it is flushed
WriteText(s) ==
    /\ Ready(s) /\ sess[s].kind = "text"
    /\ sess[s].nwrites < MaxWrites
    /\ \E chunk \in TextChunks :
         IF sess[s].closed
         THEN /\ last' = [last EXCEPT ![s] = Call(s, "write", FALSE, "ValueError")]
              /\ sess' = [sess EXCEPT ![s].nwrites = @ + 1]
         ELSE /\ sess' = [sess EXCEPT ![s].pending = @ \o Encode(chunk),
                                      ![s].written = @ \o Encode(chunk),
                                      ![s].nwrites = @ + 1]
              /\ last' = [last EXCEPT ![s] = Call(s, "write", FALSE, "none")]
    /\ UNCHANGED <<fsys, data, mp, mcall, lfs, attrs, ctx, dual>>

\* the text layer hands its pending bytes to AtomicFileWrapper.write
\* (atomic.py 37-39); the pending bytes are dropped whether or not it raises.
\* The result is <<data', pos', error>>.
FlushPending(s, ok) ==
    IF sess[s].pending = <<>> THEN <<data, sess[s].pos, "none">>
    ELSE IF sess[s].fclosed THEN <<data, sess[s].pos, "ValueError">>
    ELSE IF ~ok THEN <<data, sess[s].pos, "write">>
    ELSE <<StreamWrite(s, sess[s].pending), StreamPos(s, sess[s].pending), "none">>

\* atomic.py 139-141: flush() of a text session reaches the text layer
Flush(s, oks) ==
    /\ Ready(s) /\ sess[s].kind = "text"
    /\ sess[s].pending # <<>>
    /\ \E ok \in oks :
         IF sess[s].closed
         THEN /\ last' = [last EXCEPT ![s] = Call(s, "flush", FALSE, "ValueError")]
              /\ UNCHANGED <<data, sess>>
         ELSE LET r == FlushPending(s, ok)
              IN /\ data' = r[1]
                 /\ sess' = [sess EXCEPT ![s].pos = r[2], ![s].pending = <<>>]
                 /\ last' = [last EXCEPT ![s] = Call(s, "flush", FALSE, r[3])]
    /\ UNCHANGED <<fsys, mp, mcall, lfs, attrs, ctx, dual>>

----------------------------------------------------------------------------
(* close() and __exit__, one action per backend or stream call. *)

\* the body the close of an open session enters
EnterClose(s, op, exc) ==
    /\ sess[s].ncommit < MaxCommitRuns
    /\ last' = [last EXCEPT ![s] = Enter(s, op, exc)]
    /\ sess' = [sess EXCEPT ![s].pc =
                  IF sess[s].kind = "text" THEN "tclose_flush" ELSE "close_file",
                ![s].err = "none", ![s].ferr = "none",
                ![s].removed = FALSE, ![s].cleanup = "none"]

\* a close() without the "if self.closed: return"
BeginCloseUnguarded(s, op, exc) == EnterClose(s, op, exc)

\* atomic.py 45-48 (binary) and 129-131 (text: TextIOWrapper.close returns
\* at once when its buffer, the byte session, is closed): close() begins
BeginClose(s, op, exc) ==
    IF sess[s].closed
    THEN /\ last' = [last EXCEPT ![s] = Call(s, op, exc, "none")]
         /\ UNCHANGED sess
    ELSE EnterClose(s, op, exc)

\* AtomicFileWrapper.close / AtomicTextIOWrapper.close called by the user
CloseCall(s) ==
    /\ Ready(s)
    /\ BeginClose(s, "close", FALSE)
    /\ UNCHANGED <<fsys, data, mp, mcall, lfs, attrs, ctx, dual>>

\* atomic.py 73-84 and 136-137: __exit__.  The byte session discards when an
\* exception is passed and closes otherwise; the text session hands the call
\* to TextIOWrapper.__exit__, which closes whatever it is passed.
ExitCall(s) ==
    /\ Ready(s)
    /\ \E exc \in BOOLEAN :
         IF sess[s].kind = "binary" /\ exc
         THEN /\ last' = [last EXCEPT ![s] = Enter(s, "exit", TRUE)]
              /\ sess' = [sess EXCEPT ![s].pc = "exit_file", ![s].err = "none",
                                      ![s].ferr = "none", ![s].removed = FALSE,
                                      ![s].cleanup = "none"]
         ELSE BeginClose(s, "exit", exc)
    /\ UNCHANGED <<fsys, data, mp, mcall, lfs, attrs, ctx, dual>>

\* what the caller of a returning close()/__exit__ sees: the error the call
\* raises, else the scope's own exception when __exit__ was passed one
Outcome(s, raised) ==
    IF raised # "none" THEN raised
    ELSE IF last[s].op = "exit" /\ last[s].exc THEN "scope"
    ELSE "none"

\* TextIOWrapper.close: flush the pending bytes, then close the byte
\* session whether or not the flush raised
TCloseFlush(s, oks) ==
    /\ sess[s].pc = "tclose_flush"
    /\ \E ok \in oks :
         LET r == FlushPending(s, ok)
         IN /\ data' = r[1]
            /\ sess' = [sess EXCEPT ![s].pos = r[2], ![s].pending = <<>>,
                                    ![s].ferr = r[3], ![s].pc = "close_file"]
    /\ UNCHANGED <<fsys, last, mp, mcall, lfs, attrs, ctx, dual>>

\* atomic.py 50-53 and 68: self.file.close(); a session not opened for
\* writing is closed without a commit
CloseFile(s, oks) ==
    /\ sess[s].pc = "close_file"
    /\ \E ok \in oks :
         IF ~sess[s].fclosed /\ ~ok
         THEN /\ sess' = [sess EXCEPT ![s].fclosed = TRUE, ![s].pc = "ready"]
              /\ last' = Return(s, "fileclose")
         ELSE IF CommitsOnClose(sess[s].mode)
         THEN /\ sess' = [sess EXCEPT ![s].fclosed = TRUE, ![s].pc = "close_exists",
                                      ![s].ncommit = @ + 1]
              /\ UNCHANGED last
         ELSE /\ sess' = [sess EXCEPT ![s].fclosed = TRUE, ![s].pc = "ready",
                                      ![s].closed = TRUE,
                                      ![s].result = IF @ = "none" THEN "readonly" ELSE @]
              /\ last' = Return(s, Outcome(s, sess[s].ferr))
    /\ UNCHANGED <<fsys, data, mp, mcall, lfs, attrs, ctx, dual>>

\* atomic.py 56: self.fs.exists(self.path)
CloseExists(s, oks) ==
    /\ sess[s].pc = "close_exists"
    /\ \E ok \in oks :
         IF ~ok
         THEN sess' = [sess EXCEPT ![s].err = "exists", ![s].pc = "close_cleanup"]
         ELSE sess' = [sess EXCEPT ![s].pc =
                         IF Exists(sess[s].path) THEN "close_rm" ELSE "close_mv"]
    /\ UNCHANGED <<fsys, data, last, mp, mcall, lfs, attrs, ctx, dual>>

\* a removal that takes the temp object instead of the target
PreRemovalOfTemp(s) == FsRm(sess[s].temp_path)

\* atomic.py 57: the store after self.fs.rm(self.path)
PreRemoval(s) == FsRm(sess[s].path)

\* atomic.py 57: self.fs.rm(self.path)
CloseRm(s, oks) ==
    /\ sess[s].pc = "close_rm"
    /\ \E ok \in oks :
         IF ok /\ Exists(sess[s].path)
         THEN /\ fsys' = PreRemoval(s)
              /\ sess' = [sess EXCEPT ![s].pc = "close_mv", ![s].nrm = @ + 1,
                                      ![s].removed = TRUE]
         ELSE /\ sess' = [sess EXCEPT ![s].err = "rm", ![s].pc = "close_cleanup",
                                      ![s].nrm = @ + 1]
              /\ UNCHANGED fsys
    /\ UNCHANGED <<data, last, mp, mcall, lfs, attrs, ctx, dual>>

\* the session after a commit that went through (atomic.py 68)
Committed(s) ==
    [sess EXCEPT ![s].pc = "ready", ![s].nmv = @ + 1, ![s].closed = TRUE,
                 ![s].result = IF @ = "none" THEN "committed" ELSE @]

\* a commit that copies the temp object to the target and leaves it behind
CommitRenameCopies(s) ==
    [q \in (DOMAIN fsys) \cup {sess[s].path} |->
       IF q = sess[s].path THEN fsys[sess[s].temp_path] ELSE fsys[q]]

\* atomic.py 59: the store after self.fs.mv(self.temp_path, self.path)
CommitRename(s) == FsMv(sess[s].temp_path, sess[s].path)

\* atomic.py 59 and 68: self.fs.mv(self.temp_path, self.path)
CloseMv(s, oks) ==
    /\ sess[s].pc = "close_mv"
    /\ \E ok \in oks :
         IF ok /\ Exists(sess[s].temp_path)
         THEN /\ fsys' = CommitRename(s)
              /\ sess' = Committed(s)
              /\ last' = Return(s, Outcome(s, sess[s].ferr))
         ELSE /\ sess' = [sess EXCEPT ![s].err = "mv", ![s].pc = "close_cleanup",
                                      ![s].nmv = @ + 1]
              /\ UNCHANGED <<fsys, last>>
    /\ UNCHANGED <<data, mp, mcall, lfs, attrs, ctx, dual>>

\* a cleanup whose own failure replaces the commit's error
CleanupRaisesRemovalError(s, removed) == IF removed THEN sess[s].err ELSE "cleanup"

\* atomic.py 62-66: what close() raises after its cleanup: "raise e",
\* whatever the removal of the temp object did
CleanupRaises(s, removed) == sess[s].err

\* atomic.py 60-66: the except block of the commit
CloseCleanup(s, oks) ==
    /\ sess[s].pc = "close_cleanup"
    /\ \E ok \in oks :
         LET removed == ok /\ Exists(sess[s].temp_path)
         IN /\ fsys' = IF removed THEN FsRm(sess[s].temp_path) ELSE fsys
            /\ sess' = [sess EXCEPT ![s].pc = "ready",
                                    ![s].cleanup = IF removed THEN "removed" ELSE "failed"]
            /\ last' = Return(s, CleanupRaises(s, removed))
    /\ UNCHANGED <<data, mp, mcall, lfs, attrs, ctx, dual>>

\* atomic.py 76: self.file.close() in __exit__, outside any try
ExitFile(s, oks) ==
    /\ sess[s].pc = "exit_file"
    /\ \E ok \in oks :
         IF ~sess[s].fclosed /\ ~ok
         THEN /\ sess' = [sess EXCEPT ![s].fclosed = TRUE, ![s].pc = "ready"]
              /\ last' = Return(s, "fileclose")
         ELSE /\ sess' = [sess EXCEPT ![s].fclosed = TRUE, ![s].pc = "exit_rm"]
              /\ UNCHANGED last
    /\ UNCHANGED <<fsys, data, mp, mcall, lfs, attrs, ctx, dual>>

\* atomic.py 77-81: remove the temp object, ignoring a failure; closed = True
ExitRm(s, oks) ==
    /\ sess[s].pc = "exit_rm"
    /\ \E ok \in oks :
         LET removed == ok /\ Exists(sess[s].temp_path)
         IN /\ fsys' = IF removed THEN FsRm(sess[s].temp_path) ELSE fsys
            /\ sess' = [sess EXCEPT ![s].pc = "ready", ![s].closed = TRUE,
                                    ![s].cleanup = IF removed THEN "removed" ELSE "failed",
                                    ![s].result = IF @ = "none" THEN "discarded" ELSE @]
            /\ last' = Return(s, "scope")
    /\ UNCHANGED <<data, mp, mcall, lfs, attrs, ctx, dual>>

----------------------------------------------------------------------------
(* FSSpecMapping: path mappers. *)

\* A path argument is a str, a pathlib.Path or a value of another type.
StrArg(t) == [type |-> "str", s |-> t]
PathArg(t) == [type |-> "Path", s |-> t]
OtherArg == [type |-> "other", s |-> <<>>]

\* the paths the callers of the model pass
LocalPrefix == <<"/", "t", "/">>
RemotePrefix == <<"/", "r", "/">>
RoutedFile == <<"/", "t", "/", "f">>
RoutedDeep == <<"/", "t", "/", "/", "g">>
OtherFile == <<"/", "o", "/", "f">>

PathArgs ==
    {StrArg(RoutedFile), StrArg(OtherFile), StrArg(<<>>),
     PathArg(RoutedDeep), PathArg(OtherFile), OtherArg}

\* the prefix table of a dict mapper, in the dict's order
PrefixTable == << <<LocalPrefix, RemotePrefix>> >>

\* other prefix tables a caller may configure: an entry inside an earlier
\* entry, a remote prefix that matches its own local prefix, an empty remote
\* prefix, an empty local prefix, and no entry
NestedTable == << <<LocalPrefix, RemotePrefix>>, <<LocalPrefix \o <<"s", "/">>, <<"/", "q">>>> >>
SelfMatchingTable == << <<LocalPrefix, LocalPrefix \o <<"r">>>> >>
EmptyRemoteTable == << <<LocalPrefix, <<>>>> >>
EmptyLocalTable == << <<<<>>, RemotePrefix>> >>
\* the entries of NestedTable in the other order: the longer prefix first
LongestFirstTable == << <<LocalPrefix \o <<"s", "/">>, <<"/", "q">>>>, <<LocalPrefix, RemotePrefix>> >>
PrefixTables ==
    {PrefixTable, NestedTable, SelfMatchingTable, EmptyRemoteTable, EmptyLocalTable,
     LongestFirstTable, <<>>}

\* s with every run of separators reduced to one
RECURSIVE CollapseSlashes(_)
CollapseSlashes(t) ==
    IF Len(t) < 2 THEN t
    ELSE IF t[1] = "/" /\ t[2] = "/" THEN CollapseSlashes(Tail(t))
    ELSE <<t[1]>> \o CollapseSlashes(Tail(t))

\* mapping.py 94-95: str(path) of a pathlib.Path (of a path without "."
\* components), which drops repeated and trailing separators, keeps a
\* leading pair of them and turns the empty path into "."
PathToStr(t) ==
    LET c == CollapseSlashes(t)
        r == IF Len(c) > 1 THEN RStripSlash(c) ELSE c
    IN IF t = <<>> THEN <<".">>
       ELSE IF Len(t) >= 2 /\ t[1] = "/" /\ t[2] = "/" /\ (Len(t) = 2 \/ t[3] # "/")
       THEN <<"/">> \o r
       ELSE r

\* os.path.join(a, b)
Join(a, b) ==
    IF b # <<>> /\ Head(b) = "/" THEN b
    ELSE IF a = <<>> \/ a[Len(a)] = "/" THEN a \o b
    ELSE a \o <<"/">> \o b

\* an identity mapper that routes the empty string as well
IdentityMapperRoutesEmpty(path, operation) == <<TRUE, StrArg(path)>>

\* mapping.py 60-62: the mapper of path_mapping=None
IdentityMapper(path, operation) ==
    IF path # <<>> THEN <<TRUE, StrArg(path)>> ELSE <<FALSE, StrArg(path)>>

\* a lookup that keeps the separators at the head of the remainder
RECURSIVE DictLookupKeepsSeparators(_, _, _)
DictLookupKeepsSeparators(table, i, path) ==
    IF i > Len(table) THEN <<FALSE, StrArg(path)>>
    ELSE IF StartsWith(path, table[i][1])
    THEN <<TRUE, StrArg(RStripSlash(table[i][2]) \o <<"/">> \o
                        SubSeq(path, Len(table[i][1]) + 1, Len(path)))>>
    ELSE DictLookupKeepsSeparators(table, i + 1, path)

\* a lookup in which a later matching entry overrides an earlier one
RECURSIVE DictLookupLast(_, _, _)
DictLookupLast(table, i, path) ==
    IF i > Len(table) THEN <<FALSE, StrArg(path)>>
    ELSE LET later == DictLookupLast(table, i + 1, path)
             rel_path == LStripSlash(SubSeq(path, Len(table[i][1]) + 1, Len(path)))
         IN IF later[1] \/ ~StartsWith(path, table[i][1]) THEN later
            ELSE <<TRUE, StrArg(IF table[i][2] # <<>>
                                THEN RStripSlash(table[i][2]) \o <<"/">> \o rel_path
                                ELSE rel_path)>>

\* utils.py 54-63: the first entry, from index i on, whose local path is a
\* prefix of the path decides
RECURSIVE DictLookup(_, _, _)
DictLookup(table, i, path) ==
    IF i > Len(table) THEN <<FALSE, StrArg(path)>>
    ELSE LET local_path == table[i][1]
             remote_path == table[i][2]
             rel_path == LStripSlash(SubSeq(path, Len(local_path) + 1, Len(path)))
         IN IF StartsWith(path, local_path)
            THEN <<TRUE, StrArg(IF remote_path # <<>>
                                THEN RStripSlash(remote_path) \o <<"/">> \o rel_path
                                ELSE rel_path)>>
            ELSE DictLookup(table, i + 1, path)

\* utils.py 50-63: the mapper create_path_mapper_from_dict returns
DictMapper(table, path, operation) ==
    IF path = <<>> THEN <<FALSE, StrArg(path)>> ELSE DictLookup(table, 1, path)

\* the operation tags that contain the word (Python: word in operation);
\* the tags the mapping itself passes contain neither "write" nor "read"
TagContains(word, operation) == operation \in {word, "shutil." \o word}

\* tests/test_mapping.py 85-97: the operation-aware mapper of the tests
OperationMapper(path, operation) ==
    LET rest == SubSeq(path, Len(LocalPrefix) + 1, Len(path))
    IN IF StartsWith(path, LocalPrefix) /\ TagContains("write", operation)
       THEN <<TRUE, StrArg(Join(Join(RemotePrefix, <<"w">>), rest))>>
       ELSE IF StartsWith(path, LocalPrefix) /\ TagContains("read", operation)
       THEN <<TRUE, StrArg(Join(Join(RemotePrefix, <<"r">>), rest))>>
       ELSE <<FALSE, StrArg(path)>>

\* mapping.py 66-68: a callable that sends every family of operations on
\* the local prefix to a root of its own on the backend, and leaves what
\* builtins.open opens where it is
FamilyMapper(path, operation) ==
    LET rest == SubSeq(path, Len(LocalPrefix) + 1, Len(path))
        pathlib_tags == {"pathlib." \o n :
                           n \in {"exists", "is_dir", "is_file", "stat", "mkdir", "open"}}
    IN IF ~StartsWith(path, LocalPrefix) \/ operation = "open" THEN <<FALSE, StrArg(path)>>
       ELSE IF operation \in pathlib_tags
       THEN <<TRUE, StrArg(Join(Join(RemotePrefix, <<"p">>), rest))>>
       ELSE IF operation \in {"shutil.copy.src", "shutil.copy.dst"}
       THEN <<TRUE, StrArg(Join(Join(RemotePrefix, <<"c">>), rest))>>
       ELSE <<TRUE, StrArg(Join(RemotePrefix, rest))>>

MapperKinds == {"identity", "dict", "custom"}

\* mapping.py 57-70: self._path_mapper
PathMapper(m, path, operation) ==
    CASE m.kind = "identity" -> IdentityMapper(path, operation)
      [] m.kind = "dict" -> DictMapper(m.table, path, operation)
      [] m.kind = "family" -> FamilyMapper(path, operation)
      [] OTHER -> OperationMapper(path, operation)

\* mapping.py 94-99: what map_path hands to the path mapper: the string, the
\* str() of a pathlib.Path, or nothing for a value of another type
MapperInput(arg) ==
    IF arg.type = "Path" THEN <<PathToStr(arg.s)>>
    ELSE IF arg.type = "str" THEN <<arg.s>>
    ELSE <<>>

\* map_path that answers from the decision of the call before when the
\* value is the same
MapPathCached(m, arg, operation) ==
    IF mcall.op = "map_path" /\ mcall.arg = arg THEN mcall.result
    ELSE IF MapperInput(arg) = <<>> THEN <<FALSE, arg>>
    ELSE PathMapper(m, MapperInput(arg)[1], operation)

\* map_path that is looked up in the extension registry first
MapPathThroughRegistry(m, arg, operation) ==
    IF "map_path" \in DOMAIN m.extensions THEN <<FALSE, arg>>
    ELSE IF MapperInput(arg) = <<>> THEN <<FALSE, arg>>
    ELSE PathMapper(m, MapperInput(arg)[1], operation)

\* mapping.py 75-101: map_path
MapPath(m, arg, operation) ==
    IF MapperInput(arg) = <<>> THEN <<FALSE, arg>>
    ELSE PathMapper(m, MapperInput(arg)[1], operation)

----------------------------------------------------------------------------
(* FSSpecMapping: the single-path methods and the extension registry. *)

\* mapping.py 52-73: the object after __init__
NewMapping(kind, atomic_writes) ==
    [kind |-> kind, table |-> IF kind = "dict" THEN PrefixTable ELSE <<>>,
     atomic_writes |-> atomic_writes, extensions |-> <<>>]

\* mapping.py 63-65: the object made from a dict path_mapping
NewDictMapping(table, atomic_writes) ==
    [NewMapping("dict", atomic_writes) EXCEPT !.table = table]

\* mapping.py 181-393: the single-path methods and the tag each passes to
\* map_path
MethodTag(name) ==
    CASE name = "open" -> "open"
      [] name = "os_path_exists" -> "os.path.exists"
      [] name = "os_path_isdir" -> "os.path.isdir"
      [] name = "os_path_isfile" -> "os.path.isfile"
      [] name = "os_path_getsize" -> "os.path.getsize"
      [] name = "os_path_getmtime" -> "os.path.getmtime"
      [] name = "os_path_getctime" -> "os.path.getctime"
      [] name = "os_mkdir" -> "os.mkdir"
      [] name = "os_makedirs" -> "os.makedirs"
      [] name = "os_listdir" -> "os.listdir"
      [] name = "os_remove" -> "os.remove"
      [] name = "os_unlink" -> "os.unlink"
      [] name = "os_rmdir" -> "os.rmdir"
      [] name = "pathlib_exists" -> "pathlib.exists"
      [] name = "pathlib_is_dir" -> "pathlib.is_dir"
      [] name = "pathlib_is_file" -> "pathlib.is_file"
      [] name = "pathlib_stat" -> "pathlib.stat"
      [] name = "pathlib_mkdir" -> "pathlib.mkdir"
      [] OTHER -> "default"

SinglePathMethods ==
    {"open", "os_path_exists", "os_path_isdir", "os_path_isfile", "os_path_getsize",
     "os_path_getmtime", "os_path_getctime", "os_mkdir", "os_makedirs", "os_listdir",
     "os_remove", "os_unlink", "os_rmdir", "pathlib_exists", "pathlib_is_dir",
     "pathlib_is_file", "pathlib_stat", "pathlib_mkdir"}

\* what the normal attribute lookup of an FSSpecMapping finds: the methods
\* the class defines.  __getattr__ is called only for other names.
ClassAttributes ==
    SinglePathMethods \cup
    {"os_rename", "shutil_copy", "shutil_copy2", "shutil_copyfile", "shutil_copytree",
     "shutil_move", "shutil_rmtree", "map_path", "register_extension", "context"}

\* the options a caller passes: the mode of open, parents and exist_ok of
\* mkdir / makedirs
CallOptions ==
    {[mode |-> m, parents |-> pa, exist_ok |-> eo] :
       m \in {<<"r">>, ModeW, ModeWB, <<"a">>, <<"r", "+", "b">>},
       pa \in BOOLEAN, eo \in BOOLEAN}

\* mapping.py 203-228: what open does on the resolved path
OpenCalls(m, mapped, mode) ==
    IF m.atomic_writes /\ InStr("w", mode) /\ ~InStr("b", mode)
    THEN << <<"AtomicTextIOWrapper", mapped, mode>> >>
    ELSE IF m.atomic_writes /\ InStr("w", mode)
    THEN << <<"AtomicFileWrapper", mapped, mode>> >>
    ELSE << <<"open", mapped, mode>> >>

\* mapping.py 228-393: the backend call a single-path method makes on the
\* resolved path
BackendCalls(m, name, mapped, opts) ==
    CASE name = "open" -> OpenCalls(m, mapped, opts.mode)
      [] name \in {"os_path_exists", "pathlib_exists"} -> << <<"exists", mapped>> >>
      [] name \in {"os_path_isdir", "pathlib_is_dir"} -> << <<"isdir", mapped>> >>
      [] name \in {"os_path_isfile", "pathlib_is_file"} -> << <<"isfile", mapped>> >>
      [] name \in {"os_path_getsize", "os_path_getmtime", "os_path_getctime",
                   "pathlib_stat"} -> << <<"info", mapped>> >>
      [] name = "os_mkdir" -> << <<"mkdir", mapped>> >>
      [] name = "os_makedirs" -> << <<"makedirs", mapped, opts.exist_ok>> >>
      [] name = "os_listdir" -> << <<"ls", mapped>> >>
      [] name \in {"os_remove", "os_unlink"} -> << <<"rm", mapped>> >>
      [] name = "os_rmdir" -> << <<"rmdir", mapped>> >>
      [] name = "pathlib_mkdir" ->
           IF opts.parents THEN << <<"makedirs", mapped, opts.exist_ok>> >>
           ELSE << <<"mkdir", mapped>> >>
      [] OTHER -> <<>>

\* what a backend call that raised makes the method raise: pathlib_mkdir
\* swallows the FileExistsError of mkdir when exist_ok is set
BackendRaises(name, opts, failure) ==
    IF name = "pathlib_mkdir" /\ ~opts.parents /\ opts.exist_ok /\ failure = "FileExistsError"
    THEN "none"
    ELSE failure

\* a method that forwards os_path_exists to the backend whatever map_path says
RejectsUnroutedButExists(name, should_patch) == ~should_patch /\ name # "os_path_exists"

\* mapping.py 200-201 and the same two lines of every single-path method:
\* "if not should_patch: raise ValueError"
RejectsUnrouted(name, should_patch) == ~should_patch

NoMappingCall ==
    [op |-> "none", name |-> "none", arg |-> OtherArg, opts |-> <<>>, impl |-> "none",
     handler |-> "none", bound |-> FALSE, consulted |-> FALSE, raised |-> "none",
     backend |-> <<>>,
     \* a direct call of map_path: its tag, what the mapper was handed, what
     \* the call returned, and <<arg, tag, result, at>> of the call before it
     tag |-> "none", passed |-> <<>>, result |-> <<>>, prev |-> <<>>,
     \* (history) the registry and the backend store the call was made in
     at |-> <<>>,
     \* a call of a standard-library attribute: the attribute, the path
     \* arguments, the decisions the wrappers took, the call of the mapping
     \* and the call of an original function it ended in
     attr |-> <<>>, args |-> <<>>, callee |-> <<>>, decided |-> <<>>,
     mapping |-> <<>>, original |-> <<>>]

\* mapping.py 181-393: a single-path method of the class runs
DefaultCall(m, name, arg, opts, failure) ==
    LET d == MapPath(m, arg, MethodTag(name))
        calls == BackendCalls(m, name, d[2], opts)
    IN [NoMappingCall EXCEPT
          !.op = "invoke", !.name = name, !.arg = arg, !.opts = opts,
          !.impl = "default", !.bound = TRUE, !.consulted = TRUE,
          !.raised = IF RejectsUnrouted(name, d[1]) THEN "ValueError"
                     ELSE BackendRaises(name, opts, failure),
          !.backend = IF RejectsUnrouted(name, d[1]) THEN <<>> ELSE calls]

\* mapping.py 120-145: mapping.<name>(arg, ...).  Python calls __getattr__
\* only when the normal lookup finds no attribute; what __getattr__ returns
\* is the registered function itself, which is then called with the caller's
\* arguments.
Resolve(m, name, arg, opts, failure) ==
    IF name \in ClassAttributes THEN DefaultCall(m, name, arg, opts, failure)
    ELSE IF name \in DOMAIN m.extensions
    THEN [NoMappingCall EXCEPT
            !.op = "invoke", !.name = name, !.arg = arg, !.opts = opts,
            !.impl = "extension", !.handler = m.extensions[name],
            \* the function as it was registered: not bound to the mapping,
            \* called with the caller's arguments only
            !.bound = FALSE]
    ELSE [NoMappingCall EXCEPT
            !.op = "invoke", !.name = name, !.arg = arg, !.opts = opts,
            !.raised = "AttributeError"]

\* the names callers invoke and register
InvokedNames == SinglePathMethods \cup {"customOp"}
ExtensionNames == {"open", "customOp"}
Handlers == {"h1", "h2"}

\* a registry that keeps the handler a name already has
RegisteredKeepsFirst(extensions, name, function) ==
    [n \in (DOMAIN extensions) \cup {name} |->
       IF n \in DOMAIN extensions THEN extensions[n] ELSE function]

\* mapping.py 118: self._extensions[operation_name] = function
Registered(extensions, name, function) ==
    [n \in (DOMAIN extensions) \cup {name} |->
       IF n = name THEN function ELSE extensions[n]]

\* mapping.py 103-118: register_extension
RegisterExtension ==
    \E name \in ExtensionNames, h \in Handlers :
      /\ mp' = [mp EXCEPT !.extensions = Registered(mp.extensions, name, h)]
      /\ mcall' = [NoMappingCall EXCEPT
                     !.op = "register", !.name = name, !.handler = h,
                     \* history: the handler the name had before
                     !.prev = IF name \in DOMAIN mp.extensions
                              THEN <<mp.extensions[name]>> ELSE <<>>]
      /\ UNCHANGED <<fsys, data, sess, last, lfs, attrs, ctx, dual>>

\* a caller invokes mapping.<name>(arg, ...)
Invoke ==
    \E name \in InvokedNames, arg \in PathArgs, opts \in CallOptions,
       failure \in {"none", "FileExistsError"} :
      /\ (name # "open") => opts.mode = <<"r">>
      /\ (name \notin {"pathlib_mkdir", "os_makedirs"}) => (~opts.parents /\ ~opts.exist_ok)
      /\ mcall' = Resolve(mp, name, arg, opts, failure)
      /\ UNCHANGED <<fsys, data, sess, last, mp, lfs, attrs, ctx, dual>>

----------------------------------------------------------------------------
(* FSSpecMapping: the dual-path methods, step by step.  Paths are strings.  *)
(* The backend store holds files only; a directory is there when a file    *)
(* lies under it.  The local file system is the one builtins.open and os   *)
(* reach when no patch is active.                                          *)

\* mapping.py 328-329, 399-400, ...: self.map_path(p, tag) of a string
Decide(p, tag) == MapPath(mp, StrArg(p), tag)
Resolved(p, tag) == Decide(p, tag)[2].s

NoDualCall ==
    [op |-> "none", pc |-> "idle", src |-> <<>>, dst |-> <<>>,
     src_patch |-> FALSE, dst_patch |-> FALSE,
     \* copytree: the resolved roots and the relative files still to copy
     root_src |-> <<>>, root_dst |-> <<>>, files |-> <<>>,
     \* shutil_copy: its arguments, the resolved paths, the streams
     csrc |-> <<>>, cdst |-> <<>>, src_path |-> <<>>, dst_path |-> <<>>,
     rino |-> 0, wino |-> 0, rpos |-> 0, chunk |-> <<>>, open |-> {},
     \* where shutil_copy returns to
     ret |-> "return",
     \* history, not read by the code
     log |-> <<>>, reads |-> <<>>, result |-> "none", ncopied |-> 0, pre |-> <<>>,
     \* the destination file as shutil_copy found it, <<present, content>>, and
     \* the chunks it has written since
     dpre |-> <<FALSE, <<>>>>, nwritten |-> 0,
     \* shutil_copytree: its dirs_exist_ok keyword, and (history) whether the
     \* destination root was there when the call began
     dirs_exist_ok |-> FALSE, dst_existed |-> FALSE]

\* a call of the backend or of the local file system is recorded
Logged(d, call) == [d EXCEPT !.log = Append(@, call)]

\* an exception that shutil_move swallows after shutil_copy2, going on to
\* remove the source
RaiseButMoveGoesOn(d, err) ==
    IF d.ret = "move_rm" /\ d.pc # "move_rm" THEN [d EXCEPT !.pc = "move_rm", !.open = {}]
    ELSE [d EXCEPT !.pc = "idle", !.result = err, !.open = {}]

\* an exception that leaves the method with its streams still open
RaiseKeepsStreams(d, err) == [d EXCEPT !.pc = "idle", !.result = err]

\* an exception leaves the method: the with blocks release the streams
Raise(d, err) == [d EXCEPT !.pc = "idle", !.result = err, !.open = {}]

\* the method returns
Finish(d) == [d EXCEPT !.pc = "idle", !.result = "returned"]

\* p is at or under root
Under(p, root) == p = root \/ StartsWith(p, RStripSlash(root) \o <<"/">>)

\* os.path.relpath(name, root) for a name at or under root
RelPath(name, root) ==
    IF name = root THEN <<".">>
    ELSE SubSeq(name, Len(RStripSlash(root)) + 2, Len(name))

\* the elements of a finite set in some fixed order
RECURSIVE SetToSeq(_)
SetToSeq(S) ==
    IF S = {} THEN <<>>
    ELSE LET x == CHOOSE y \in S : TRUE IN <<x>> \o SetToSeq(S \ {x})

\* mapping.py 452-454: the files fs.find lists under src_path, relative to it
BackendRelativeFiles(root) ==
    SetToSeq({RelPath(q, root) : q \in {r \in DOMAIN fsys : Under(r, root)}})

\* mapping.py 456-460: the files os.walk finds under src, relative to it
LocalRelativeFiles(root) ==
    SetToSeq({RelPath(q, root) :
                q \in {r \in DOMAIN lfs : r # root /\ Under(r, root)}})

\* os.path.isdir on the local file system
LocalIsDir(p) == \E q \in DOMAIN lfs : q # p /\ Under(q, p)

\* a directory is there when a file lies under it: on the backend when the
\* side is patched, on the local file system otherwise
DirExists(patched, p) ==
    IF patched THEN \E q \in DOMAIN fsys : q # p /\ Under(q, p) ELSE LocalIsDir(p)

\* the local file system after os.remove(p) or shutil.rmtree(p)
LocalRemove(p) == [q \in (DOMAIN lfs) \ {p} |-> lfs[q]]
LocalRmtree(p) == [q \in {r \in DOMAIN lfs : ~Under(r, p)} |-> lfs[q]]

\* mapping.py 402-422: which branch of shutil_copy runs
CopyBranch(d) ==
    IF d.src_patch /\ d.dst_patch THEN "copy_native"
    ELSE IF d.src_patch \/ d.dst_patch THEN "copy_open_src"
    ELSE "copy_ret"

\* mapping.py 396-400: shutil_copy(csrc, cdst, src_patch, dst_patch) begins
CopyBegin(d, csrc, cdst, ret) ==
    LET e == [d EXCEPT
                !.csrc = csrc, !.cdst = cdst, !.ret = ret,
                !.src_path = IF d.src_patch THEN Resolved(csrc, "shutil.copy.src")
                             ELSE csrc,
                !.dst_path = IF d.dst_patch THEN Resolved(cdst, "shutil.copy.dst")
                             ELSE cdst,
                !.rpos = 0, !.chunk = <<>>, !.nwritten = 0]
    IN [e EXCEPT !.pc = CopyBranch(e),
                 !.dpre = IF e.dst_patch THEN Snapshot(e.dst_path)
                          ELSE IF cdst \in DOMAIN lfs THEN <<TRUE, lfs[cdst]>>
                          ELSE <<FALSE, <<>>>>]

\* mapping.py 404: self.fs.copy(src_path, dst_path)
CopyNative(oks) ==
    /\ dual.pc = "copy_native"
    /\ \E ok \in oks :
         LET d == Logged(dual, <<"fs.copy", dual.src_path, dual.dst_path>>)
         IN IF ok /\ Exists(dual.src_path)
            THEN /\ fsys' = [q \in (DOMAIN fsys) \cup {dual.dst_path} |->
                               IF q = dual.dst_path THEN NewInode ELSE fsys[q]]
                 /\ data' = Append(data, Content(dual.src_path))
                 /\ dual' = [d EXCEPT !.pc = "copy_ret", !.ncopied = @ + 1]
            ELSE /\ dual' = Raise(d, "BackendError")
                 /\ UNCHANGED <<fsys, data>>
    /\ UNCHANGED <<sess, last, mp, mcall, lfs, attrs, ctx>>

\* mapping.py 407 / 416: open the source for reading
CopyOpenSrc(oks) ==
    /\ dual.pc = "copy_open_src"
    /\ \E ok \in oks :
         IF dual.src_patch
         THEN LET d == Logged(dual, <<"fs.open", dual.src_path, "rb">>)
              IN IF ok /\ Exists(dual.src_path)
                 THEN dual' = [d EXCEPT !.pc = "copy_open_dst", !.open = {"fsrc"},
                                        !.rino = fsys[dual.src_path]]
                 ELSE dual' = Raise(d, "BackendError")
         ELSE LET d == Logged(dual, <<"open", dual.csrc, "rb">>)
              IN IF ok /\ dual.csrc \in DOMAIN lfs
                 THEN dual' = [d EXCEPT !.pc = "copy_open_dst", !.open = {"fsrc"}]
                 ELSE dual' = Raise(d, "OSError")
    /\ UNCHANGED <<fsys, data, sess, last, mp, mcall, lfs, attrs, ctx>>

\* mapping.py 408 / 417: open the destination with "wb": created or emptied
CopyOpenDst(oks) ==
    /\ dual.pc = "copy_open_dst"
    /\ \E ok \in oks :
         IF dual.dst_patch
         THEN LET d == Logged(dual, <<"fs.open", dual.dst_path, "wb">>)
                  ino == IF Exists(dual.dst_path) THEN fsys[dual.dst_path] ELSE NewInode
              IN IF ok
                 THEN /\ fsys' = [q \in (DOMAIN fsys) \cup {dual.dst_path} |->
                                    IF q = dual.dst_path THEN ino ELSE fsys[q]]
                      /\ data' = [i \in 1..(IF ino > Len(data) THEN ino ELSE Len(data)) |->
                                    IF i = ino THEN <<>> ELSE data[i]]
                      /\ dual' = [d EXCEPT !.pc = "copy_read", !.wino = ino,
                                           !.open = @ \cup {"fdst"}]
                      /\ UNCHANGED lfs
                 ELSE /\ dual' = Raise(d, "BackendError")
                      /\ UNCHANGED <<fsys, data, lfs>>
         ELSE LET d == Logged(dual, <<"open", dual.cdst, "wb">>)
              IN IF ok
                 THEN /\ lfs' = [q \in (DOMAIN lfs) \cup {dual.cdst} |->
                                   IF q = dual.cdst THEN <<>> ELSE lfs[q]]
                      /\ dual' = [d EXCEPT !.pc = "copy_read", !.open = @ \cup {"fdst"}]
                      /\ UNCHANGED <<fsys, data>>
                 ELSE /\ dual' = Raise(d, "OSError")
                      /\ UNCHANGED <<fsys, data, lfs>>
    /\ UNCHANGED <<sess, last, mp, mcall, attrs, ctx>>

\* a read that returns all that is left of the source
ReadSizeWhole(left, short) == left

\* mapping.py 410 / 419: the bytes fsrc.read(1024 * 1024) returns when
\* `left` bytes are left: at most the size asked for, at least one while
\* bytes are left (a stream may return fewer than asked)
ReadSize(left, short) ==
    LET full == IF left < ChunkSize THEN left ELSE ChunkSize
    IN IF short /\ full > 1 THEN full - 1 ELSE full

\* what the open source stream holds
SourceContent == IF dual.src_patch THEN data[dual.rino] ELSE lfs[dual.csrc]

\* mapping.py 410-412 / 419-421: chunk = fsrc.read(1024 * 1024); a read
\* returns at most the bytes asked for, at least one while bytes are left,
\* and nothing at the end of the source
CopyRead(oks) ==
    /\ dual.pc = "copy_read"
    /\ \E ok \in oks, short \in BOOLEAN :
         LET n == ReadSize(Len(SourceContent) - dual.rpos, short)
             chunk == SubSeq(SourceContent, dual.rpos + 1, dual.rpos + n)
         IN IF ok
            THEN dual' = [dual EXCEPT !.chunk = chunk, !.rpos = @ + n,
                                      !.reads = Append(@, n),
                                      !.pc = IF chunk = <<>> THEN "copy_close"
                                             ELSE "copy_write"]
            ELSE dual' = Raise(dual, IF dual.src_patch THEN "BackendError" ELSE "OSError")
    /\ UNCHANGED <<fsys, data, sess, last, mp, mcall, lfs, attrs, ctx>>

\* mapping.py 413 / 422: fdst.write(chunk)
CopyWrite(oks) ==
    /\ dual.pc = "copy_write"
    /\ \E ok \in oks :
         IF ok
         THEN /\ dual' = [dual EXCEPT !.pc = "copy_read", !.nwritten = @ + 1]
              /\ IF dual.dst_patch
                 THEN /\ data' = [data EXCEPT ![dual.wino] = @ \o dual.chunk]
                      /\ UNCHANGED lfs
                 ELSE /\ lfs' = [lfs EXCEPT ![dual.cdst] = @ \o dual.chunk]
                      /\ UNCHANGED data
         ELSE /\ dual' = Raise(dual, IF dual.dst_patch THEN "BackendError" ELSE "OSError")
              /\ UNCHANGED <<data, lfs>>
    /\ UNCHANGED <<fsys, sess, last, mp, mcall, attrs, ctx>>

\* mapping.py 407-408 / 416-417: the with blocks end and close both streams
CopyClose ==
    /\ dual.pc = "copy_close"
    /\ dual' = [dual EXCEPT !.pc = "copy_ret", !.open = {}, !.ncopied = @ + 1]
    /\ UNCHANGED <<fsys, data, sess, last, mp, mcall, lfs, attrs, ctx>>

\* shutil_copy returns to its caller: the user (also through shutil_copy2 or
\* shutil_copyfile, mapping.py 424-432), shutil_move (497) or shutil_copytree
\* (483)
CopyReturn ==
    /\ dual.pc = "copy_ret"
    /\ dual' = CASE dual.ret = "move_rm" -> [dual EXCEPT !.pc = "move_rm"]
                 [] dual.ret = "tree_next" -> [dual EXCEPT !.pc = "tree_next"]
                 [] OTHER -> Finish(dual)
    /\ UNCHANGED <<fsys, data, sess, last, mp, mcall, lfs, attrs, ctx>>

\* the paths callers pass to the dual-path methods: files and directories,
\* under the routed local prefix and outside it
SrcFiles == {LocalPrefix \o <<"a">>, <<"/", "o", "/", "a">>}
DstFiles == {LocalPrefix \o <<"b">>, <<"/", "o", "/", "b">>}
SrcDirs == {LocalPrefix \o <<"d">>, <<"/", "o", "/", "d">>}
DstDirs == {LocalPrefix \o <<"e">>, <<"/", "o", "/", "e">>}

\* the files below a source directory, relative to it
TreeFiles == {<<"x">>, <<"s", "/", "y">>}

DualOps ==
    {"os_rename", "shutil_copy", "shutil_copy2", "shutil_copyfile", "shutil_copytree",
     "shutil_move", "shutil_rmtree"}

\* os_rename that looks at the source's decision only
RenameRejectsSourceOnly(src, dst) == ~Decide(src, "os.rename.src")[1]

\* mapping.py 328-332: os_rename raises unless both sides are routed
RenameRejects(src, dst) ==
    ~Decide(src, "os.rename.src")[1] \/ ~Decide(dst, "os.rename.dst")[1]

\* the source file as the method finds it: on the backend at the resolved
\* path when the source side is patched, on the local file system otherwise
SourceSnapshot(src, sp) ==
    IF sp
    THEN (IF Exists(Resolved(src, "shutil.copy.src"))
          THEN Content(Resolved(src, "shutil.copy.src")) ELSE <<>>)
    ELSE (IF src \in DOMAIN lfs THEN lfs[src] ELSE <<>>)

\* a call of a dual-path method begins: mapping.<op>(src, dst[, src_patch,
\* dst_patch]).  mapping.py 326-332 (os_rename), 396-400 (shutil_copy),
\* 424-432 (shutil_copy2, shutil_copyfile), 434-442 (shutil_copytree),
\* 487-497 (shutil_move)
DualStart ==
    /\ dual.pc = "idle" /\ dual.op = "none"
    /\ \E op \in DualOps, sp \in BOOLEAN, dp \in BOOLEAN :
       \E src \in (IF op \in {"shutil_copytree", "shutil_rmtree"} THEN SrcDirs
                   ELSE IF op = "shutil_move" THEN SrcFiles \cup SrcDirs ELSE SrcFiles),
          dst \in (IF op \in {"shutil_copytree", "shutil_rmtree"} THEN DstDirs
                   ELSE IF op = "shutil_move" THEN DstFiles \cup DstDirs ELSE DstFiles),
          deo \in (IF op = "shutil_copytree" THEN BOOLEAN ELSE {FALSE}) :
         LET d == [NoDualCall EXCEPT !.op = op, !.src = src, !.dst = dst,
                                     !.src_patch = sp, !.dst_patch = dp,
                                     !.dirs_exist_ok = deo,
                                     !.pre = SourceSnapshot(src, sp)]
         IN CASE op = "os_rename" ->
                   /\ ~sp /\ ~dp
                   /\ dual' =
                        IF RenameRejects(src, dst)
                        THEN Raise(d, "ValueError")
                        ELSE [d EXCEPT !.pc = "rename_mv",
                                       !.src_path = Resolved(src, "os.rename.src"),
                                       !.dst_path = Resolved(dst, "os.rename.dst")]
              [] op = "shutil_move" ->
                   \* a file is moved to a file path; a directory to a
                   \* directory path, through the copy-and-remove branch
                   /\ (src \in SrcDirs) = (dst \in DstDirs)
                   /\ src \in SrcDirs => ~(sp /\ dp)
                   /\ dual' =
                     IF sp /\ dp
                     THEN [d EXCEPT !.pc = "move_mv",
                                    !.src_path = Resolved(src, "shutil.move.src"),
                                    !.dst_path = Resolved(dst, "shutil.move.dst")]
                     ELSE CopyBegin(d, src, dst, "move_rm")
              [] op = "shutil_copytree" ->
                   LET root_dst == IF dp THEN Resolved(dst, "shutil.copytree.dst") ELSE dst
                   IN dual' = [d EXCEPT
                                 !.pc = "tree_mkroot",
                                 !.root_src = IF sp THEN Resolved(src, "shutil.copytree.src")
                                              ELSE src,
                                 !.root_dst = root_dst,
                                 !.dst_existed = DirExists(dp, root_dst)]
              [] op = "shutil_rmtree" ->
                   \* one path only; dst_patch is not read
                   /\ ~dp
                   /\ dual' = [d EXCEPT !.pc = "rmtree_rm", !.dst = <<>>, !.pre = <<>>]
              [] OTHER -> dual' = CopyBegin(d, src, dst, "return")
    /\ UNCHANGED <<fsys, data, sess, last, mp, mcall, lfs, attrs, ctx>>

\* the backend store after fs.mv / fs.rm: the call raises on a missing path
BackendMove(d, oks) ==
    \E ok \in oks :
      LET e == Logged(d, <<"fs.mv", d.src_path, d.dst_path>>)
      IN IF ok /\ Exists(d.src_path)
         THEN /\ fsys' = FsMv(d.src_path, d.dst_path)
              /\ dual' = Finish(e)
         ELSE /\ dual' = Raise(e, "BackendError")
              /\ UNCHANGED fsys

\* mapping.py 334: self.fs.mv(mapped_src, mapped_dst)
RenameMv(oks) ==
    /\ dual.pc = "rename_mv"
    /\ BackendMove(dual, oks)
    /\ UNCHANGED <<data, sess, last, mp, mcall, lfs, attrs, ctx>>

\* mapping.py 494: self.fs.mv(src_path, dst_path)
MoveMv(oks) ==
    /\ dual.pc = "move_mv"
    /\ BackendMove(dual, oks)
    /\ UNCHANGED <<data, sess, last, mp, mcall, lfs, attrs, ctx>>

\* mapping.py 498-507: the source is removed after shutil_copy2 returned
MoveRm(oks) ==
    /\ dual.pc = "move_rm"
    /\ \E ok \in oks :
         IF dual.src_patch
         THEN LET q == Resolved(dual.src, "shutil.move.src")
                  d == Logged(dual, <<"fs.rm", q>>)
              IN /\ UNCHANGED lfs
                 /\ IF ok /\ Exists(q)
                    THEN fsys' = FsRm(q) /\ dual' = Finish(d)
                    ELSE dual' = Raise(d, "BackendError") /\ UNCHANGED fsys
         ELSE /\ UNCHANGED fsys
              /\ IF LocalIsDir(dual.src)
                 THEN LET d == Logged(dual, <<"shutil.rmtree", dual.src>>)
                      IN IF ok
                         THEN lfs' = LocalRmtree(dual.src) /\ dual' = Finish(d)
                         ELSE dual' = Raise(d, "OSError") /\ UNCHANGED lfs
                 ELSE LET d == Logged(dual, <<"os.remove", dual.src>>)
                      IN IF ok /\ dual.src \in DOMAIN lfs
                         THEN lfs' = LocalRemove(dual.src) /\ dual' = Finish(d)
                         ELSE dual' = Raise(d, "OSError") /\ UNCHANGED lfs
    /\ UNCHANGED <<data, sess, last, mp, mcall, attrs, ctx>>

\* mapping.py 509-518: shutil_rmtree removes the tree on the backend at the
\* resolved path when src_patch is set, on the local file system otherwise
RmtreeRm(oks) ==
    /\ dual.pc = "rmtree_rm"
    /\ \E ok \in oks :
         IF dual.src_patch
         THEN LET path_mapped == Resolved(dual.src, "shutil.rmtree")
                  d == Logged(dual, <<"fs.rm", path_mapped>>)
              IN /\ UNCHANGED lfs
                 /\ IF ok /\ \E q \in DOMAIN fsys : Under(q, path_mapped)
                    THEN /\ fsys' = [q \in {r \in DOMAIN fsys : ~Under(r, path_mapped)} |->
                                       fsys[q]]
                         /\ dual' = Finish(d)
                    ELSE dual' = Raise(d, "BackendError") /\ UNCHANGED fsys
         ELSE LET d == Logged(dual, <<"shutil.rmtree", dual.src>>)
              IN /\ UNCHANGED fsys
                 /\ IF ok /\ LocalIsDir(dual.src)
                    THEN lfs' = LocalRmtree(dual.src) /\ dual' = Finish(d)
                    ELSE dual' = Raise(d, "OSError") /\ UNCHANGED lfs
    /\ UNCHANGED <<data, sess, last, mp, mcall, attrs, ctx>>

\* a makedirs that is always called with exist_ok=True
MakedirsRejectsNever(exist_ok, patched, p) == FALSE

\* mapping.py 446 / 448: makedirs(p, exist_ok=...) raises FileExistsError
\* for a directory that is there unless exist_ok is set
MakedirsRejects(exist_ok, patched, p) == ~exist_ok /\ DirExists(patched, p)

\* mapping.py 444-448: the destination root is created, with
\* exist_ok=dirs_exist_ok
TreeMkRoot(oks) ==
    /\ dual.pc = "tree_mkroot"
    /\ \E ok \in oks :
         LET d == Logged(dual, IF dual.dst_patch THEN <<"fs.makedirs", dual.root_dst>>
                               ELSE <<"os.makedirs", dual.dst>>)
         IN dual' = IF MakedirsRejects(dual.dirs_exist_ok, dual.dst_patch, dual.root_dst)
                    THEN Raise(d, "FileExistsError")
                    ELSE IF ok THEN [d EXCEPT !.pc = "tree_list"]
                    ELSE Raise(d, IF dual.dst_patch THEN "BackendError" ELSE "OSError")
    /\ UNCHANGED <<fsys, data, sess, last, mp, mcall, lfs, attrs, ctx>>

\* mapping.py 450-460: the relative paths of the files under the source root
TreeList(oks) ==
    /\ dual.pc = "tree_list"
    /\ \E ok \in oks :
         LET d == Logged(dual, IF dual.src_patch THEN <<"fs.find", dual.root_src>>
                               ELSE <<"os.walk", dual.src>>)
         IN dual' = IF ok
                    THEN [d EXCEPT !.pc = "tree_next",
                                   !.files = IF dual.src_patch
                                             THEN BackendRelativeFiles(dual.root_src)
                                             ELSE LocalRelativeFiles(dual.src)]
                    ELSE Raise(d, IF dual.src_patch THEN "BackendError" ELSE "OSError")
    /\ UNCHANGED <<fsys, data, sess, last, mp, mcall, lfs, attrs, ctx>>

\* mapping.py 463-485: the next relative file: its two paths are joined onto
\* the roots, the destination directory is created, and shutil_copy2 is
\* called on the joined paths with the flags of the tree copy
TreeNext(oks) ==
    /\ dual.pc = "tree_next"
    /\ \E ok \in oks :
         IF dual.files = <<>> THEN dual' = Finish(dual)
         ELSE LET relative_file == Head(dual.files)
                  src_file == Join(IF dual.src_patch THEN dual.root_src ELSE dual.src,
                                   relative_file)
                  dst_file == Join(IF dual.dst_patch THEN dual.root_dst ELSE dual.dst,
                                   relative_file)
                  d == Logged(dual, <<IF dual.dst_patch THEN "fs.makedirs" ELSE "os.makedirs",
                                      Dirname(dst_file)>>)
              IN dual' = IF ok
                         THEN CopyBegin([d EXCEPT !.files = Tail(@)], src_file, dst_file,
                                        "tree_next")
                         ELSE Raise(d, IF dual.dst_patch THEN "BackendError" ELSE "OSError")
    /\ UNCHANGED <<fsys, data, sess, last, mp, mcall, lfs, attrs, ctx>>

\* the content of a file of n bytes; the bytes differ from one another and
\* from one file to the next
FileBody(n, base) == [i \in 1..n |-> base + i]

\* the files the stores hold before the call: a source file and a source
\* tree on the local file system outside the routed prefix, and on the
\* backend, for every source path the mapper routes, a file at the path the
\* mapper resolves it to
LocalSourceFiles(n) ==
    [q \in {<<"/", "o", "/", "a">>} \cup {Join(<<"/", "o", "/", "d">>, r) : r \in TreeFiles} |->
       IF q = <<"/", "o", "/", "a">> THEN FileBody(n, 100) ELSE FileBody(1, 110 + Len(q))]

RoutedSourcePaths(m) ==
    {q \in SrcFiles \cup {Join(dir, r) : dir \in SrcDirs, r \in TreeFiles} :
       MapPath(m, StrArg(q), "open")[1]}

\* a file of a destination tree that is there before the call
OldTreeFile == <<"z">>

\* the files of the destination trees that are there before the call, on
\* the local file system and, for the paths the mapper routes, on the backend
LocalDestFiles == {Join(<<"/", "o", "/", "e">>, OldTreeFile)}
RoutedDestPaths(m) ==
    {q \in {Join(dir, OldTreeFile) : dir \in DstDirs} : MapPath(m, StrArg(q), "open")[1]}

DualMappers ==
    {NewMapping("identity", TRUE), NewDictMapping(PrefixTable, TRUE),
     NewDictMapping(SelfMatchingTable, TRUE)}

----------------------------------------------------------------------------
(* FSBridgeContext: patching and restoring the standard library. *)

\* core.py 121: the attribute _patch_open replaces
OpenAttrs == {<<"builtins", "open">>}

\* core.py 128-185: the attributes _patch_os_functions replaces
OsAttrs ==
    {<<"os.path", n>> : n \in {"exists", "isdir", "isfile", "getsize", "getmtime",
                               "getctime"}} \cup
    {<<"os", n>> : n \in {"mkdir", "makedirs", "listdir", "remove", "unlink", "rmdir",
                          "rename"}}

\* core.py 192-220: the attributes _patch_pathlib replaces
PathlibAttrs ==
    {<<"pathlib.Path", n>> : n \in {"exists", "is_dir", "is_file", "stat", "mkdir", "open"}}

\* core.py 226-263: the attributes _patch_shutil replaces
ShutilAttrs ==
    {<<"shutil", n>> : n \in {"copy", "copy2", "copyfile", "copytree", "move", "rmtree"}}

Attributes == OpenAttrs \cup OsAttrs \cup PathlibAttrs \cup ShutilAttrs

\* the function the standard library binds to an attribute
Original(a) == [kind |-> "original", attr |-> a]

\* core.py 109, 136, 160, 193, 210, 227: the attribute whose object a
\* replacement calls for a path it does not redirect.  patched_open and
\* patched_path_open keep their original in a variable of their own; the
\* closures made in a loop read the loop's original_func / original_method
\* when they are called, after the loop has ended: the original of the last
\* name of the function's loops
FallbackAttr(a) ==
    CASE a \in OpenAttrs -> a
      [] a \in OsAttrs -> <<"os", "rename">>
      [] a = <<"pathlib.Path", "open">> -> a
      [] a \in PathlibAttrs -> <<"pathlib.Path", "mkdir">>
      [] OTHER -> <<"shutil", "rmtree">>

\* core.py 112-119 and the other patched_* closures: the replacement of
\* attribute a made by the gen-th __enter__ of context c, which keeps the
\* object it found there and calls `fallback` for a path it does not redirect
Replacement(c, a, gen, found, fallback) ==
    [kind |-> "patched", attr |-> a, ctx |-> c, gen |-> gen, wraps |-> found,
     calls |-> fallback]

Contexts == {1, 2}

\* core.py 26-59: the object after __init__; `via` tells an FSBridgeContext
\* the caller made from one that fsbridge_context made (core.py 349-355)
NewContext(via, flags) ==
    [via |-> via, patch_open |-> flags[1], patch_os |-> flags[2],
     patch_pathlib |-> flags[3], patch_shutil |-> flags[4], originals |-> <<>>,
     \* history, not read by the code
     entered |-> 0, exited |-> 0, depth |-> 0, before |-> <<>>, after |-> <<>>,
     raised |-> FALSE]

\* _patch_operations that patches the os functions whatever patch_os says
EnabledWithOsAlways(c) ==
    (IF ctx[c].patch_open THEN OpenAttrs ELSE {}) \cup OsAttrs \cup
    (IF ctx[c].patch_pathlib THEN PathlibAttrs ELSE {}) \cup
    (IF ctx[c].patch_shutil THEN ShutilAttrs ELSE {})

\* core.py 70-82: the attributes _patch_operations replaces
Enabled(c) ==
    (IF ctx[c].patch_open THEN OpenAttrs ELSE {}) \cup
    (IF ctx[c].patch_os THEN OsAttrs ELSE {}) \cup
    (IF ctx[c].patch_pathlib THEN PathlibAttrs ELSE {}) \cup
    (IF ctx[c].patch_shutil THEN ShutilAttrs ELSE {})

\* core.py 61-64, 70-82, 90-105: __enter__.  _patch_function stores what it
\* finds under the attribute's key in _originals, over an entry already there
EnterContext(c) ==
    /\ ctx[c].entered < MaxEnters
    /\ ctx[c].via = "fsbridge_context" => ctx[c].entered = 0
    /\ attrs' = [a \in Attributes |->
                   IF a \in Enabled(c)
                   THEN Replacement(c, a, ctx[c].entered + 1, attrs[a],
                                    attrs[FallbackAttr(a)])
                   ELSE attrs[a]]
    /\ ctx' = [ctx EXCEPT
                 ![c].originals = [a \in (DOMAIN ctx[c].originals) \cup Enabled(c) |->
                                     IF a \in Enabled(c) THEN attrs[a]
                                     ELSE ctx[c].originals[a]],
                 ![c].entered = @ + 1, ![c].depth = @ + 1, ![c].before = attrs]
    /\ UNCHANGED <<fsys, data, sess, last, mp, mcall, lfs, dual>>

\* attributes left patched by a restore that skips builtins.open
RestoredButOpen(c) ==
    [a \in Attributes |->
       IF a \in DOMAIN ctx[c].originals /\ a \notin OpenAttrs THEN ctx[c].originals[a]
       ELSE attrs[a]]

\* core.py 84-87: the attributes after _restore_operations
Restored(c) ==
    [a \in Attributes |->
       IF a \in DOMAIN ctx[c].originals THEN ctx[c].originals[a] ELSE attrs[a]]

\* core.py 66-68, 84-88 and 358-362: __exit__, after a body that returned or
\* raised; the exception of the body is not swallowed
ExitContext(c) ==
    \E exc \in BOOLEAN :
      /\ ctx[c].depth > 0
      /\ attrs' = Restored(c)
      /\ ctx' = [ctx EXCEPT ![c].originals = <<>>, ![c].exited = @ + 1,
                            ![c].depth = @ - 1, ![c].after = attrs', ![c].raised = exc]
      /\ UNCHANGED <<fsys, data, sess, last, mp, mcall, lfs, dual>>

\* core.py 116, 140, 178, 199, 215, 233: the tag under which the replacement
\* of an attribute asks map_path.  patched_rmtree reads the loop's func_name
\* when it is called, which is "rmtree", the last name of the loop
PatchTag(a) ==
    CASE a[1] = "builtins" -> "open"
      [] a[1] = "os.path" -> "os.path." \o a[2]
      [] a[1] = "os" -> "os." \o a[2]
      [] a[1] = "pathlib.Path" -> "pathlib." \o a[2]
      [] OTHER -> "shutil." \o a[2]

\* core.py 118, 142, 170, 180, 202, 217, 235, 253: the method of the mapping
\* the replacement of an attribute calls for a redirected path
MappingMethod(a) ==
    CASE a[1] = "builtins" -> "open"
      [] a[1] = "os.path" -> "os_path_" \o a[2]
      [] a[1] = "os" -> "os_" \o a[2]
      [] a = <<"pathlib.Path", "open">> -> "open"
      [] a[1] = "pathlib.Path" -> "pathlib_" \o a[2]
      [] OTHER -> "shutil_" \o a[2]

\* the attributes whose functions take a source and a destination
TwoPathAttrs == {<<"os", "rename">>} \cup (ShutilAttrs \ {<<"shutil", "rmtree">>})

\* what a call ended in: the decisions taken on the way, the method of the
\* mapping called, the original function called, the exception raised and
\* the calls made on the backend
NoOutcome ==
    [decided |-> <<>>, mapping |-> <<>>, original |-> <<>>, raised |-> "none",
     backend |-> <<>>]

\* a function of the standard library is called: os.rename needs two paths
OriginalCall(a, args) ==
    IF a = <<"os", "rename">> /\ Len(args) < 2
    THEN [NoOutcome EXCEPT !.raised = "TypeError"]
    ELSE [NoOutcome EXCEPT !.original = <<a, args>>]

\* mapping.py 396-400, 424-432, 434-442, 487-497, 509-514: the paths a
\* dual-path method or shutil_rmtree resolves for the sides it was told are
\* patched, each under the tag the method passes to map_path
MethodPaths(name, src, dst, sp, dp) ==
    LET tag == CASE name = "shutil_copytree" -> "shutil.copytree"
                 [] name = "shutil_move" /\ sp /\ dp -> "shutil.move"
                 [] OTHER -> "shutil.copy"
    IN IF name = "shutil_rmtree"
       THEN << <<"path", MapPath(mp, src, "shutil.rmtree")>> >>
       ELSE (IF sp THEN << <<"src", MapPath(mp, src, tag \o ".src")>> >> ELSE <<>>) \o
            (IF dp THEN << <<"dst", MapPath(mp, dst, tag \o ".dst")>> >> ELSE <<>>)

\* mapping.py 326-334: os_rename asks the mapper itself and rejects a side
\* the mapper declines
RenameOutcome(src, dst) ==
    LET s == MapPath(mp, src, "os.rename.src")
        t == MapPath(mp, dst, "os.rename.dst")
    IN IF ~s[1] \/ ~t[1] THEN [NoOutcome EXCEPT !.raised = "ValueError"]
       ELSE [NoOutcome EXCEPT !.backend = << <<"src", s>>, <<"dst", t>> >>]

\* the replacement calls the method of the mapping.  The normal lookup finds
\* the method of the class, so no extension is consulted.
MethodCall(a, args, mode, sp, dp) ==
    LET name == MappingMethod(a)
        opts == [mode |-> mode, parents |-> FALSE, exist_ok |-> FALSE]
        one == DefaultCall(mp, name, args[1], opts, "none")
    IN IF a = <<"os", "rename">>
       THEN [RenameOutcome(args[1], args[2]) EXCEPT !.mapping = <<name, args>>]
       ELSE IF a \in ShutilAttrs
       THEN [NoOutcome EXCEPT
               !.mapping = <<name, args, sp, dp>>,
               !.backend = MethodPaths(name, args[1],
                                       IF Len(args) > 1 THEN args[2] ELSE args[1], sp, dp)]
       ELSE [NoOutcome EXCEPT !.mapping = <<name, args>>, !.raised = one.raised,
                              !.backend = one.backend]

\* core.py 197, 214: str(self_path) in the pathlib replacements
AsString(arg) == IF arg.type = "Path" THEN StrArg(PathToStr(arg.s)) ELSE arg

\* core.py 112-119, 138-145, 164-171, 176-183, 195-205, 212-218, 231-238,
\* 243-261: an object bound to an attribute is called with path arguments.
\* A replacement asks map_path under its tag; it calls the mapping for a
\* path the mapper routes and the object it reads as its original otherwise.
RECURSIVE CallObject(_, _, _)
CallObject(obj, args, mode) ==
    IF obj.kind = "original" THEN OriginalCall(obj.attr, args)
    ELSE
      LET a == obj.attr
          tag == PatchTag(a)
          below == CallObject(obj.calls, args, mode)
          Skip(decisions) == [below EXCEPT !.decided = decisions \o @]
          Take(decisions, out) == [out EXCEPT !.decided = decisions]
      IN CASE a \in OpenAttrs ->
                LET d == MapPath(mp, args[1], tag)
                IN IF args[1].type # "str" THEN Skip(<<>>)
                   ELSE IF d[1]
                   THEN Take(<< <<tag, args[1], d>> >>, MethodCall(a, args, mode, FALSE, FALSE))
                   ELSE Skip(<< <<tag, args[1], d>> >>)
           [] a \in TwoPathAttrs ->
                IF Len(args) < 2 THEN [NoOutcome EXCEPT !.raised = "TypeError"]
                ELSE
                  LET s == MapPath(mp, args[1], tag \o ".src")
                      t == MapPath(mp, args[2], tag \o ".dst")
                      ds == << <<tag \o ".src", args[1], s>>, <<tag \o ".dst", args[2], t>> >>
                      go == IF a = <<"os", "rename">> THEN s[1] /\ t[1] ELSE s[1] \/ t[1]
                  IN IF go THEN Take(ds, MethodCall(a, args, mode, s[1], t[1]))
                     ELSE Skip(ds)
           [] a = <<"shutil", "rmtree">> ->
                LET d == MapPath(mp, args[1], tag)
                IN IF d[1]
                   THEN Take(<< <<tag, args[1], d>> >>, MethodCall(a, args, mode, TRUE, FALSE))
                   ELSE Skip(<< <<tag, args[1], d>> >>)
           [] a \in PathlibAttrs ->
                LET path_str == AsString(args[1])
                    d == MapPath(mp, path_str, tag)
                IN IF d[1]
                   THEN Take(<< <<tag, path_str, d>> >>,
                             MethodCall(a, <<path_str>>, mode, FALSE, FALSE))
                   ELSE Skip(<< <<tag, path_str, d>> >>)
           [] OTHER ->
                LET d == MapPath(mp, args[1], tag)
                IN IF d[1]
                   THEN Take(<< <<tag, args[1], d>> >>, MethodCall(a, args, mode, FALSE, FALSE))
                   ELSE Skip(<< <<tag, args[1], d>> >>)

\* the values callers pass as paths
CallArgs == {StrArg(RoutedFile), StrArg(OtherFile), PathArg(RoutedDeep), PathArg(OtherFile),
             OtherArg}

\* the program calls an attribute of the standard library: open(file, mode),
\* os.path.exists(path), Path(p).exists(), shutil.copy(src, dst), ...
PatchedCall ==
    \E a \in Attributes, p \in CallArgs, q \in CallArgs, mode \in {<<"r">>, ModeW} :
      LET args == IF a \in TwoPathAttrs THEN <<p, q>> ELSE <<p>>
          out == CallObject(attrs[a], args, mode)
      IN /\ mcall.op # "patched"
         /\ a \notin TwoPathAttrs => q = OtherArg
         /\ a \in TwoPathAttrs => (p.type = "str" /\ q.type = "str")
         /\ a \in PathlibAttrs => p.type = "Path"
         /\ a[2] # "open" => mode = <<"r">>
         /\ mcall' = [NoMappingCall EXCEPT
                        !.op = "patched", !.attr = a, !.args = args,
                        !.opts = [mode |-> mode], !.callee = attrs[a],
                        !.decided = out.decided, !.mapping = out.mapping,
                        !.original = out.original, !.raised = out.raised,
                        !.backend = out.backend]
         /\ UNCHANGED <<fsys, data, sess, last, mp, lfs, attrs, ctx, dual>>

\* the call returns or raises to the program, which goes on
PatchedReturn ==
    /\ mcall.op = "patched"
    /\ mcall' = NoMappingCall
    /\ UNCHANGED <<fsys, data, sess, last, mp, lfs, attrs, ctx, dual>>

Flags == [1..4 -> BOOLEAN]

InitPatching ==
    /\ attrs = [a \in Attributes |-> Original(a)]
    /\ \E f1 \in Flags, f2 \in Flags :
         ctx = [c \in Contexts |->
                  IF c = 1 THEN NewContext("FSBridgeContext", f1)
                  ELSE NewContext("fsbridge_context", f2)]

\* no context, every patch group enabled
InitNoPatching ==
    /\ attrs = [a \in Attributes |-> Original(a)]
    /\ ctx = [c \in Contexts |-> NewContext("FSBridgeContext", [i \in 1..4 |-> TRUE])]

InitCore ==
    /\ fsys = <<>> /\ data = <<>> /\ lfs = <<>>
    /\ sess = [s \in Sessions |-> NoSession]
    /\ last = [s \in Sessions |-> NoCall]
    /\ mp = NewMapping("identity", TRUE)
    /\ mcall = NoMappingCall
    /\ dual = NoDualCall
    /\ InitPatching

NextCore == \E c \in Contexts : EnterContext(c) \/ ExitContext(c)

SpecCore == InitCore /\ [][NextCore]_vars

----------------------------------------------------------------------------
(* The mapping called directly, outside any context. *)

InitMap ==
    /\ fsys = <<>> /\ data = <<>>
    /\ sess = [s \in Sessions |-> NoSession]
    /\ last = [s \in Sessions |-> NoCall]
    /\ \E kind \in MapperKinds, aw \in BOOLEAN : mp = NewMapping(kind, aw)
    /\ mcall = NoMappingCall
    /\ lfs = <<>>
    /\ dual = NoDualCall
    /\ InitNoPatching

NextMap == RegisterExtension \/ Invoke

SpecMap == InitMap /\ [][NextMap]_vars

\* the values and tags callers pass to map_path
RouteArgs ==
    PathArgs \cup
    {StrArg(LocalPrefix), StrArg(LocalPrefix \o <<"/", "g">>),
     StrArg(LocalPrefix \o <<"s", "/", "f">>), PathArg(<<>>)}
RouteTags == {"default", "open", "write", "read"}

RouteMappers ==
    {NewMapping("identity", TRUE), NewMapping("custom", TRUE)} \cup
    {NewDictMapping(t, TRUE) : t \in PrefixTables}

\* a caller invokes mapping.map_path(arg, tag)
MapPathCallOn(args, tags) ==
    \E arg \in args, tag \in tags :
      /\ mcall' = [NoMappingCall EXCEPT
                     !.op = "map_path", !.arg = arg, !.tag = tag,
                     !.passed = MapperInput(arg),
                     !.result = MapPath(mp, arg, tag),
                     !.at = <<mp.extensions, fsys>>,
                     !.prev = IF mcall.op = "map_path"
                              THEN <<mcall.arg, mcall.tag, mcall.result, mcall.at>>
                              ELSE <<>>]
      /\ UNCHANGED <<fsys, data, sess, last, mp, lfs, attrs, ctx, dual>>

MapPathCall == MapPathCallOn(RouteArgs, RouteTags)

InitRoute ==
    /\ fsys = <<>> /\ data = <<>> /\ lfs = <<>>
    /\ sess = [s \in Sessions |-> NoSession]
    /\ last = [s \in Sessions |-> NoCall]
    /\ mp \in RouteMappers
    /\ mcall = NoMappingCall
    /\ dual = NoDualCall
    /\ InitNoPatching

NextRoute == MapPathCall

SpecRoute == InitRoute /\ [][NextRoute]_vars

\* calls of map_path between which the extension registry and the backend
\* store change: an extension is registered under the name map_path, and a
\* session creates its temp object on the backend
PureArgs ==
    {StrArg(RoutedFile), StrArg(OtherFile), PathArg(RoutedDeep),
     StrArg(LocalPrefix \o <<"s", "/", "f">>)}
PureMappers ==
    {NewMapping("identity", TRUE)} \cup {NewDictMapping(t, TRUE) : t \in PrefixTables}

\* mapping.py 103-118: register_extension("map_path", function)
RegisterMapPath ==
    /\ mp' = [mp EXCEPT !.extensions = Registered(mp.extensions, "map_path", "h1")]
    /\ UNCHANGED <<fsys, data, sess, last, mcall, lfs, attrs, ctx, dual>>

InitPure ==
    /\ \E present \in BOOLEAN :
         IF present
         THEN fsys = [q \in {TargetPath} |-> 1] /\ data = <<OldContent>>
         ELSE fsys = <<>> /\ data = <<>>
    /\ sess = [s \in Sessions |-> NoSession]
    /\ last = [s \in Sessions |-> NoCall]
    /\ mp \in PureMappers
    /\ mcall = NoMappingCall
    /\ lfs = <<>>
    /\ dual = NoDualCall
    /\ InitNoPatching

NextPure ==
    \/ MapPathCallOn(PureArgs, RouteTags)
    \/ RegisterMapPath
    \/ Open(1, {"binary"}, {ModeWB}, {TRUE})

SpecPure == InitPure /\ [][NextPure]_vars

\* the mappings whose contexts the program enters
PatchMappers ==
    {NewMapping("identity", TRUE), NewMapping("dict", TRUE), NewMapping("family", TRUE)}

\* one context over one mapping, made with any patch flags
InitPatched ==
    /\ fsys = <<>> /\ data = <<>> /\ lfs = <<>>
    /\ sess = [s \in Sessions |-> NoSession]
    /\ last = [s \in Sessions |-> NoCall]
    /\ mp \in PatchMappers
    /\ mcall = NoMappingCall
    /\ dual = NoDualCall
    /\ attrs = [a \in Attributes |-> Original(a)]
    /\ \E f \in Flags :
         ctx = [c \in Contexts |-> NewContext("FSBridgeContext", f)]

\* the program is one thread: it enters and leaves the context between calls
NextPatched ==
    \/ mcall.op # "patched" /\ EnterContext(1)
    \/ mcall.op # "patched" /\ ExitContext(1)
    \/ PatchedCall
    \/ PatchedReturn

SpecPatched == InitPatched /\ [][NextPatched]_vars

InitDual ==
    /\ sess = [s \in Sessions |-> NoSession]
    /\ last = [s \in Sessions |-> NoCall]
    /\ mcall = NoMappingCall
    /\ dual = NoDualCall
    /\ InitNoPatching
    /\ \E m \in DualMappers, n \in 0..MaxLen, old \in BOOLEAN :
         LET routed == SetToSeq(RoutedSourcePaths(m) \cup
                                  (IF old THEN RoutedDestPaths(m) ELSE {}))
         IN /\ mp = m
            /\ lfs = [q \in (DOMAIN LocalSourceFiles(n)) \cup
                               (IF old THEN LocalDestFiles ELSE {}) |->
                        IF q \in LocalDestFiles THEN FileBody(1, 120)
                        ELSE LocalSourceFiles(n)[q]]
            /\ fsys = [q \in {MapPath(m, StrArg(routed[i]), "open")[2].s :
                                i \in 1..Len(routed)} |->
                         CHOOSE i \in 1..Len(routed) :
                           MapPath(m, StrArg(routed[i]), "open")[2].s = q]
            /\ data = [i \in 1..Len(routed) |->
                         IF routed[i] \in SrcFiles THEN FileBody(n, 0)
                         ELSE FileBody(1, 10 + Len(routed[i]))]

NextDual ==
    \/ DualStart
    \/ RenameMv(BOOLEAN)
    \/ CopyNative(BOOLEAN)
    \/ CopyOpenSrc(BOOLEAN)
    \/ CopyOpenDst(BOOLEAN)
    \/ CopyRead(BOOLEAN)
    \/ CopyWrite(BOOLEAN)
    \/ CopyClose
    \/ CopyReturn
    \/ MoveMv(BOOLEAN)
    \/ MoveRm(BOOLEAN)
    \/ RmtreeRm(BOOLEAN)
    \/ TreeMkRoot(BOOLEAN)
    \/ TreeList(BOOLEAN)
    \/ TreeNext(BOOLEAN)

SpecDual == InitDual /\ [][NextDual]_vars

\* the same calls on stores whose calls raise only for what the stores hold
\* (a missing file), never for an outside fault
NextDualSound ==
    \/ DualStart
    \/ RenameMv({TRUE})
    \/ CopyNative({TRUE})
    \/ CopyOpenSrc({TRUE})
    \/ CopyOpenDst({TRUE})
    \/ CopyRead({TRUE})
    \/ CopyWrite({TRUE})
    \/ CopyClose
    \/ CopyReturn
    \/ MoveMv({TRUE})
    \/ MoveRm({TRUE})
    \/ RmtreeRm({TRUE})
    \/ TreeMkRoot({TRUE})
    \/ TreeList({TRUE})
    \/ TreeNext({TRUE})

SpecDualSound == InitDual /\ [][NextDualSound]_vars

----------------------------------------------------------------------------
(* One session on a store that holds the target or not. *)

InitStore ==
    /\ \E present \in BOOLEAN :
         IF present
         THEN fsys = [q \in {TargetPath} |-> 1] /\ data = <<OldContent>>
         ELSE fsys = <<>> /\ data = <<>>
    /\ sess = [s \in Sessions |-> NoSession]
    /\ last = [s \in Sessions |-> NoCall]

InitMapping ==
    /\ mp = NewMapping("identity", TRUE)
    /\ mcall = NoMappingCall
    /\ lfs = <<>>
    /\ dual = NoDualCall
    /\ InitNoPatching

Init == InitStore /\ InitMapping

\* the steps of a byte session
BinaryStep(s, bmodes, chunks, oks) ==
    \/ Open(s, {"binary"}, bmodes, oks)
    \/ WriteBinary(s, chunks, oks)
    \/ CloseCall(s)
    \/ ExitCall(s)
    \/ CloseFile(s, oks)
    \/ CloseExists(s, oks)
    \/ CloseRm(s, oks)
    \/ CloseMv(s, oks)
    \/ CloseCleanup(s, oks)
    \/ ExitFile(s, oks)
    \/ ExitRm(s, oks)

\* the steps a text session adds
TextStep(s, oks) ==
    \/ Open(s, {"text"}, {}, oks)
    \/ WriteText(s)
    \/ Flush(s, oks)
    \/ TCloseFlush(s, oks)

Next ==
    \/ BinaryStep(1, BinaryModes, BinChunks, BOOLEAN)
    \/ TextStep(1, BOOLEAN)

Spec == Init /\ [][Next]_vars

\* sessions made for any target
SpecTemp == Init /\ [][OpenAny]_vars

\* a byte session made for any target, prefix and suffix, written and closed
\* on a backend whose calls raise only for what the store holds
OpenAnyWriting ==
    \E path \in TargetPaths, prefix \in TempPrefixes, suffix \in TempSuffixes :
      OpenAt(1, {"binary"}, {ModeWB}, {TRUE}, path, prefix, suffix)

NextTempCommit ==
    \/ OpenAnyWriting
    \/ WriteBinary(1, BinChunks, {TRUE})
    \/ CloseCall(1)
    \/ CloseFile(1, {TRUE})
    \/ CloseExists(1, {TRUE})
    \/ CloseRm(1, {TRUE})
    \/ CloseMv(1, {TRUE})
    \/ CloseCleanup(1, {TRUE})

SpecTempCommit == Init /\ [][NextTempCommit]_vars

----------------------------------------------------------------------------
(* Two byte sessions opened for the same target, no backend failure. *)

NextRace == \E s \in Sessions : BinaryStep(s, {ModeWB}, {<<96 + s>>}, {TRUE})

SpecRace == Init /\ [][NextRace]_vars

----------------------------------------------------------------------------
(* Properties of the atomic write sessions. *)

\* the call `ops` most recently made on session s has returned
Returned(s, ops) ==
    /\ sess[s].kind # "none"
    /\ sess[s].pc = "ready"
    /\ last[s].op \in ops
    /\ last[s].seen # "running"

\* an __exit__ that was passed the scope's exception has returned on a
\* session that no earlier call had closed or tried to commit
DiscardReturned(s) ==
    /\ Returned(s, {"exit"})
    /\ last[s].exc
    /\ ~last[s].wasClosed
    /\ CommitsOnClose(sess[s].mode)

\* C1: when an exception leaves the scope of a byte session opened for
\* writing, then after __exit__ the target is as it was before the session,
\* the temp object is gone, the session is closed and the caller sees the
\* scope's exception, whatever the backend did.
C1_DiscardLeavesNothing ==
    \A s \in Sessions :
      (DiscardReturned(s) /\ sess[s].kind = "binary" /\ sess[s].ncommit = 0) =>
        /\ Snapshot(sess[s].path) = sess[s].pre
        /\ ~Exists(sess[s].temp_path)
        /\ sess[s].closed
        /\ last[s].seen = "scope"

\* C2: when an exception leaves the scope of a text session after text was
\* written, and __exit__ itself raises nothing, the target (absent before)
\* is still absent and no temp object remains.
C2_TextDiscards ==
    \A s \in Sessions :
      (/\ DiscardReturned(s)
       /\ sess[s].kind = "text"
       /\ sess[s].written # <<>>
       /\ ~sess[s].pre[1]
       /\ last[s].seen = "scope") =>
        /\ ~Exists(sess[s].path)
        /\ ~Exists(sess[s].temp_path)

\* a close() or an __exit__ without exception found the session open and
\* returned without raising, and no earlier call on the session raised
ClosedNormally(s) ==
    /\ Returned(s, {"close", "exit"})
    /\ ~last[s].exc
    /\ ~last[s].wasClosed
    /\ last[s].seen = "none"
    /\ ~last[s].errors
    /\ CommitsOnClose(sess[s].mode)

\* C3: after content C was written through a session (byte or text) and the
\* session was closed normally, the target holds exactly C (its encoding,
\* for a text session) and there is no temp object.
C3_CommitHoldsContent ==
    \A s \in Sessions :
      ClosedNormally(s) =>
        /\ Exists(sess[s].path)
        /\ Content(sess[s].path) = sess[s].written
        /\ ~Exists(sess[s].temp_path)

C3_Witness ==
    \E s \in Sessions :
      /\ ClosedNormally(s)
      /\ sess[s].kind = "text"
      /\ sess[s].pre[1]
      /\ Len(sess[s].written) >= 3

\* C4: at every step of a session, the target holds what it held before the
\* session, or is absent, or holds all the content written through the
\* session; never a proper part of it.
C4_NoPartialTarget ==
    \A s \in Sessions :
      (sess[s].kind # "none" /\ Exists(sess[s].path)) =>
        \/ Snapshot(sess[s].path) = sess[s].pre
        \/ Content(sess[s].path) = sess[s].written

\* C4, for byte sessions alone: the same statement
NoPartialTargetBinary ==
    \A s \in Sessions :
      (sess[s].kind = "binary" /\ Exists(sess[s].path)) =>
        \/ Snapshot(sess[s].path) = sess[s].pre
        \/ Content(sess[s].path) = sess[s].written

\* C5: when two sessions on one target have both been closed with close()
\* (each close() finding its session open), the target exists and holds all
\* the content of one of them.
C5_LastRenameWins ==
    (\A s \in Sessions : Returned(s, {"close"}) /\ ~last[s].wasClosed) =>
      /\ Exists(TargetPath)
      /\ \E s \in Sessions : Content(TargetPath) = sess[s].written

\* C6: over any sequence of close() and __exit__ calls on a session the
\* target is removed at most once and the rename is tried at most once, and
\* a call that ran the commit leaves the session closed, also when the
\* commit raised.
C6_TerminalOnce ==
    \A s \in Sessions :
      /\ sess[s].nrm <= 1
      /\ sess[s].nmv <= 1
      /\ (Returned(s, {"close", "exit"}) /\ sess[s].ncommit >= 1) => sess[s].closed

\* C7: close() on a session that is already closed makes no backend call,
\* changes neither the store nor the session, and does not raise.
C7_CloseOnClosedIsNoop ==
    [][\A s \in Sessions :
         (sess[s].closed /\ last'[s] # last[s] /\ last'[s].op = "close") =>
           /\ fsys' = fsys
           /\ data' = data
           /\ sess' = sess
           /\ last'[s].seen = "none"]_vars

C7_Witness ==
    \E s \in Sessions :
      /\ Returned(s, {"close"})
      /\ last[s].wasClosed
      /\ sess[s].result = "discarded"

\* C8: when the commit raised (exists, rm of the target or mv), close() has
\* tried to remove the temp object, raises the commit's own error even if
\* that removal failed, and a target it had removed stays removed.
C8_CommitFailure ==
    \A s \in Sessions :
      (Returned(s, {"close", "exit"}) /\ sess[s].err # "none") =>
        /\ sess[s].err \in {"exists", "rm", "mv"}
        /\ last[s].seen = sess[s].err
        /\ sess[s].cleanup # "none"
        /\ sess[s].removed => ~Exists(sess[s].path)

C8_Witness ==
    \E s \in Sessions :
      /\ Returned(s, {"close"})
      /\ sess[s].err = "mv"
      /\ sess[s].removed
      /\ sess[s].cleanup = "failed"
      /\ Exists(sess[s].temp_path)

----------------------------------------------------------------------------
(* Properties of the mapping. *)

\* C9: a single-path method called on a path for which map_path answers
\* "not routed" raises and makes no backend call.
C9_UnroutedRejected ==
    (/\ mcall.op = "invoke"
     /\ mcall.name \in SinglePathMethods
     /\ ~MapPath(mp, mcall.arg, MethodTag(mcall.name))[1]) =>
      /\ mcall.raised = "ValueError"
      /\ mcall.backend = <<>>

C9_Witness ==
    /\ mcall.op = "invoke"
    /\ mcall.name = "pathlib_mkdir"
    /\ mcall.arg = PathArg(OtherFile)
    /\ mp.kind = "dict"
    /\ mcall.raised = "ValueError"
    /\ mcall.backend = <<>>

\* C10: once a handler is registered under a name, invoking that name on
\* the mapping calls the handler, not the default implementation, and
\* consults neither the path mapper nor the backend; for every name, the
\* names of the built-in operations included.
C10_ExtensionReplacesDefault ==
    (mcall.op = "invoke" /\ mcall.name \in DOMAIN mp.extensions) =>
      /\ mcall.impl = "extension"
      /\ mcall.handler = mp.extensions[mcall.name]
      /\ ~mcall.consulted
      /\ mcall.backend = <<>>

\* C11: a registered handler invoked through the mapping receives the
\* mapping instance as its first argument, before the caller's arguments.
C11_HandlerGetsMapping ==
    (mcall.op = "invoke" /\ mcall.impl = "extension") => mcall.bound

----------------------------------------------------------------------------
(* Properties of the dual-path methods. *)

\* the tag prefix under which the patched shutil function of an operation
\* asks the mapper (core.py 244-250)
WrapperTag(op) ==
    CASE op = "shutil_copy" -> "shutil.copy"
      [] op = "shutil_copy2" -> "shutil.copy2"
      [] op = "shutil_copyfile" -> "shutil.copyfile"
      [] op = "shutil_copytree" -> "shutil.copytree"
      [] op = "shutil_move" -> "shutil.move"
      [] OTHER -> "os.rename"

SrcRouted == Decide(dual.src, WrapperTag(dual.op) \o ".src")[1]
DstRouted == Decide(dual.dst, WrapperTag(dual.op) \o ".dst")[1]

\* the flags of the call are the mapper's decisions, as the patched shutil
\* functions pass them
FlagsAsDecided == dual.src_patch = SrcRouted /\ dual.dst_patch = DstRouted

CopyOps == {"shutil_copy", "shutil_copy2", "shutil_copyfile"}

IsRemoval(call) == call[1] \in {"fs.rm", "os.remove", "shutil.rmtree"}
IsStreamOpen(call) == call[1] \in {"fs.open", "open"}

Calls(d, Test(_)) == {i \in 1..Len(d.log) : Test(d.log[i])}

\* the destination file of a copy or move, <<present, content>>
DestSnapshot ==
    IF dual.dst_patch
    THEN Snapshot(Resolved(dual.dst, WrapperTag(dual.op) \o ".dst"))
    ELSE (IF dual.dst \in DOMAIN lfs THEN <<TRUE, lfs[dual.dst]>> ELSE <<FALSE, <<>>>>)

\* the source file of a copy or move, <<present, content>>
SrcSnapshot ==
    IF dual.src_patch
    THEN Snapshot(Resolved(dual.src, WrapperTag(dual.op) \o ".src"))
    ELSE (IF dual.src \in DOMAIN lfs THEN <<TRUE, lfs[dual.src]>> ELSE <<FALSE, <<>>>>)

\* C12: os_rename raises and calls no backend operation unless both sides
\* are routed; when both are, its only backend call is the rename of the
\* resolved source to the resolved destination.
C12_RenameNeedsBoth ==
    dual.op = "os_rename" =>
      IF SrcRouted /\ DstRouted
      THEN /\ dual.result # "ValueError"
           /\ dual.pc = "rename_mv" => dual.log = <<>>
           /\ dual.pc = "idle" =>
                dual.log = << <<"fs.mv", Resolved(dual.src, "os.rename.src"),
                                Resolved(dual.dst, "os.rename.dst")>> >>
      ELSE dual.result = "ValueError" /\ dual.log = <<>>

C12_Witness ==
    /\ dual.op = "os_rename"
    /\ SrcRouted /\ ~DstRouted
    /\ dual.result = "ValueError"
    /\ dual.log = <<>>

\* C13: a shutil_copy with one side routed reads the source in chunks of at
\* most ChunkSize bytes, makes at most one read more than the source has
\* bytes, and when it returns the destination holds the bytes of the source
\* and no backend copy was called; with both sides routed it calls the
\* backend copy once and opens no stream.
C13_ChunkedCopy ==
    (dual.op \in CopyOps /\ FlagsAsDecided) =>
      /\ \A i \in 1..Len(dual.reads) : dual.reads[i] <= ChunkSize
      /\ Len(dual.reads) <= Len(dual.pre) + 1
      /\ (dual.src_patch # dual.dst_patch) =>
           /\ \A i \in 1..Len(dual.log) : IsStreamOpen(dual.log[i])
           /\ dual.result = "returned" =>
                /\ DestSnapshot = <<TRUE, dual.pre>>
                /\ SrcSnapshot = <<TRUE, dual.pre>>
                /\ Cardinality(Calls(dual, IsStreamOpen)) = 2
      /\ (dual.src_patch /\ dual.dst_patch) =>
           /\ Calls(dual, IsStreamOpen) = {}
           /\ dual.reads = <<>>
           /\ Len(dual.log) <= 1
           /\ dual.result = "returned" =>
                dual.log = << <<"fs.copy", Resolved(dual.src, "shutil.copy.src"),
                                Resolved(dual.dst, "shutil.copy.dst")>> >>

C13_Witness ==
    /\ dual.op = "shutil_copy"
    /\ FlagsAsDecided
    /\ dual.src_patch /\ ~dual.dst_patch
    /\ dual.result = "returned"
    /\ Len(dual.pre) = ChunkSize
    /\ dual.reads = <<ChunkSize, 0>>
    /\ DestSnapshot = <<TRUE, dual.pre>>

\* C14: shutil_copy, shutil_copy2 and shutil_copyfile called with neither
\* side routed never return successfully.
C14_NeitherRoutedRejected ==
    (/\ dual.op \in CopyOps
     /\ FlagsAsDecided
     /\ ~dual.src_patch /\ ~dual.dst_patch) => dual.result # "returned"

\* a file of a tree, <<present, content>>: on the backend under a resolved
\* root, on the local file system under the root the caller passed
TreeFile(patched, resolved_root, root, rel) ==
    IF patched THEN Snapshot(Join(resolved_root, rel))
    ELSE (IF Join(root, rel) \in DOMAIN lfs THEN <<TRUE, lfs[Join(root, rel)]>>
          ELSE <<FALSE, <<>>>>)

TreeCopied ==
    /\ dual.result = "returned"
    /\ \A rel \in TreeFiles :
         /\ TreeFile(dual.src_patch, dual.root_src, dual.src, rel)[1]
         /\ TreeFile(dual.dst_patch, dual.root_dst, dual.dst, rel) =
              TreeFile(dual.src_patch, dual.root_src, dual.src, rel)

\* the existing-destination policy lets the tree copy go ahead
DestinationAllowed == dual.dirs_exist_ok \/ ~dual.dst_existed

\* C15: on stores that raise for no outside reason, a shutil_copytree with
\* at least one side routed, to a destination the existing-destination
\* policy allows, ends having copied every file under the source root to
\* the same relative path under the destination root, whatever the mapper's
\* configuration.
C15_TreeCopiedEveryMapper ==
    (/\ dual.op = "shutil_copytree"
     /\ FlagsAsDecided
     /\ dual.src_patch \/ dual.dst_patch
     /\ DestinationAllowed
     /\ dual.pc = "idle") => TreeCopied

\* the same for mappers whose resolved paths the mapper does not route again
\* or resolves to themselves
TreeCopiedPlainMappers ==
    (/\ dual.op = "shutil_copytree"
     /\ FlagsAsDecided
     /\ dual.src_patch \/ dual.dst_patch
     /\ mp.table # SelfMatchingTable
     /\ DestinationAllowed
     /\ dual.pc = "idle") => TreeCopied

\* the source of a move is where it was: the file with its bytes, or, for a
\* directory, the tree
SourceInPlace ==
    IF dual.src \in SrcDirs
    THEN \A rel \in TreeFiles :
           TreeFile(dual.src_patch, Resolved(dual.src, "shutil.move.src"), dual.src, rel)[1]
    ELSE SrcSnapshot = <<TRUE, dual.pre>>

\* C16: a shutil_move with both sides routed calls the backend rename and
\* nothing else; with one side routed the source is removed only after the
\* copy completed, the destination then holding the source's bytes, and a
\* move that raised before the removal leaves the source in place.
C16_MoveCopiesThenRemoves ==
    (dual.op = "shutil_move" /\ FlagsAsDecided) =>
      /\ (dual.src_patch /\ dual.dst_patch) =>
           /\ dual.ncopied = 0 /\ dual.reads = <<>>
           /\ Len(dual.log) <= 1
           /\ \A i \in 1..Len(dual.log) :
                dual.log[i] = <<"fs.mv", Resolved(dual.src, "shutil.move.src"),
                                Resolved(dual.dst, "shutil.move.dst")>>
           /\ dual.result = "returned" => Len(dual.log) = 1
      /\ (dual.src_patch # dual.dst_patch) =>
           /\ Calls(dual, IsRemoval) # {} =>
                /\ dual.ncopied = 1
                /\ DestSnapshot = <<TRUE, dual.pre>>
                /\ \A i \in Calls(dual, IsRemoval) : i = Len(dual.log)
           /\ (dual.pc = "idle" /\ dual.result # "returned" /\ Calls(dual, IsRemoval) = {}) =>
                SourceInPlace
           /\ dual.result = "returned" =>
                /\ Calls(dual, IsRemoval) # {}
                /\ ~SrcSnapshot[1]

C16_Witness ==
    /\ dual.op = "shutil_move"
    /\ FlagsAsDecided
    /\ dual.src_patch /\ ~dual.dst_patch
    /\ dual.pc = "idle"
    /\ dual.result = "OSError"
    /\ Len(dual.reads) > 0
    /\ Calls(dual, IsRemoval) = {}
    /\ SrcSnapshot = <<TRUE, dual.pre>>

----------------------------------------------------------------------------
(* Properties of map_path. *)

\* the entries of the prefix table whose local prefix is a prefix of p
Matching(p) == {i \in 1..Len(mp.table) : StartsWith(p, mp.table[i][1])}

\* join(R, s): R without trailing separators, one separator, s without
\* leading separators
JoinTrimmed(R, suffix) == RStripSlash(R) \o <<"/">> \o LStripSlash(suffix)

Suffix(p, L) == SubSeq(p, Len(L) + 1, Len(p))

DictCall == mcall.op = "map_path" /\ mp.kind = "dict" /\ mcall.arg.type = "str"

\* C17, as stated: for every configured entry (L, R) and every suffix s,
\* map_path(L + s, tag) returns (True, join(R, s)).
C17_EveryEntryJoins ==
    DictCall =>
      \A i \in Matching(mcall.arg.s) :
        mcall.result =
          <<TRUE, StrArg(JoinTrimmed(mp.table[i][2], Suffix(mcall.arg.s, mp.table[i][1])))>>

\* C17, amended: for a path that is not empty, the first configured entry
\* (L, R), in the table's order, whose L is a prefix of the path decides:
\* map_path(L + s, tag) returns (True, join(R, s)) when R is not empty, and
\* (True, s without its leading separators) when R is empty.
C17_FirstEntryJoins ==
    (DictCall /\ mcall.arg.s # <<>> /\ Matching(mcall.arg.s) # {}) =>
      LET i == CHOOSE j \in Matching(mcall.arg.s) : \A k \in Matching(mcall.arg.s) : j <= k
          R == mp.table[i][2]
          suffix == Suffix(mcall.arg.s, mp.table[i][1])
      IN mcall.result =
           <<TRUE, StrArg(IF R # <<>> THEN JoinTrimmed(R, suffix) ELSE LStripSlash(suffix))>>

C17_Witness ==
    /\ DictCall
    /\ mp.table = NestedTable
    /\ mcall.arg = StrArg(LocalPrefix \o <<"s", "/", "f">>)
    /\ mcall.result = <<TRUE, StrArg(<<"/", "r", "/", "s", "/", "f">>)>>

\* the calls of map_path whose answer must be "not routed": a value that
\* is neither a string nor a pathlib.Path, the empty string, and, under a
\* prefix table, a string no entry matches
MustDecline ==
    /\ mcall.op = "map_path"
    /\ mp.kind \in {"identity", "dict"}
    /\ \/ mcall.arg.type = "other"
       \/ mcall.arg = StrArg(<<>>)
       \/ mp.kind = "dict" /\ mcall.arg.type = "str" /\ Matching(mcall.arg.s) = {}

\* C18, as stated: under the identity and prefix-table configurations a
\* path matching no entry (a string or a pathlib.Path), an empty path and a
\* value of another type are answered (False, path) with the value the
\* caller passed; a value of another type never reaches the mapper.
C18_DeclinedUnchanged ==
    /\ (mcall.op = "map_path" /\ mcall.arg.type = "other") => mcall.passed = <<>>
    /\ (MustDecline \/ (/\ mcall.op = "map_path" /\ mp.kind = "dict"
                        /\ mcall.arg.type = "Path"
                        /\ Matching(PathToStr(mcall.arg.s)) = {})) =>
         mcall.result = <<FALSE, mcall.arg>>

\* C18, amended: the same for strings and for values of other types; for a
\* pathlib.Path that matches no entry the answer is (False, str(path)), a
\* string, not the Path the caller passed.
C18_DeclinedStrUnchanged ==
    /\ (mcall.op = "map_path" /\ mcall.arg.type = "other") => mcall.passed = <<>>
    /\ MustDecline => mcall.result = <<FALSE, mcall.arg>>
    /\ (/\ mcall.op = "map_path" /\ mp.kind = "dict" /\ mcall.arg.type = "Path"
        /\ Matching(PathToStr(mcall.arg.s)) = {}) =>
         mcall.result = <<FALSE, StrArg(PathToStr(mcall.arg.s))>>

C18_Witness ==
    /\ mcall.op = "map_path"
    /\ mp.kind = "dict" /\ mp.table = PrefixTable
    /\ mcall.arg = PathArg(OtherFile)
    /\ mcall.result = <<FALSE, StrArg(OtherFile)>>

\* C19: with a custom mapper, map_path returns what the mapper answers for
\* the string and the tag of this call, whatever the call before it was.
C19_TagDecides ==
    (mcall.op = "map_path" /\ mp.kind = "custom" /\ mcall.passed # <<>>) =>
      mcall.result = OperationMapper(mcall.passed[1], mcall.tag)

C19_Witness ==
    /\ mcall.op = "map_path" /\ mp.kind = "custom"
    /\ mcall.tag = "write" /\ mcall.result[1]
    /\ mcall.prev # <<>>
    /\ mcall.prev[1] = mcall.arg /\ mcall.prev[2] = "read" /\ mcall.prev[3][1]
    /\ mcall.prev[3] # mcall.result

----------------------------------------------------------------------------
(* Properties of FSBridgeContext. *)

\* C20: when a context that was entered once has exited, after a body that
\* returned or raised, every attribute it replaced was bound at the exit to
\* the object it had been bound to just before the enter, and the context
\* holds no saved originals.
C20_ExitRestores ==
    \A c \in Contexts :
      (ctx[c].entered = 1 /\ ctx[c].exited = 1) =>
        /\ \A a \in Enabled(c) : ctx[c].after[a] = ctx[c].before[a]
        /\ ctx[c].originals = <<>>

C20_Witness ==
    \E c \in Contexts :
      /\ ctx[c].via = "fsbridge_context"
      /\ ctx[c].entered = 1 /\ ctx[c].exited = 1 /\ ctx[c].raised
      /\ Enabled(c) = Attributes
      /\ ctx[c].before[<<"builtins", "open">>].kind = "patched"
      /\ ctx[c].after = ctx[c].before
      /\ ctx[c].originals = <<>>

----------------------------------------------------------------------------
(* Properties of the calls made while a context is active. *)

\* the call was made on an attribute that a context had replaced
CalledPatched == mcall.op = "patched" /\ mcall.callee.kind = "patched"

\* what the mapper says of the first argument under the tag of the
\* attribute's replacement; builtins.open asks for strings only
Verdict ==
    /\ (mcall.attr \in OpenAttrs => mcall.args[1].type = "str")
    /\ MapPath(mp, mcall.args[1], PatchTag(mcall.attr))[1]

\* C21: while a context is active, a patched single-path function called on a
\* path the mapper declines (for builtins.open also on a non-string argument)
\* calls the original function of that attribute with the same arguments and
\* makes no backend call; called on a routed path it calls the mapping and
\* does not call the original.
C21_DeclinedCallsOriginal ==
    (CalledPatched /\ mcall.attr \notin TwoPathAttrs) =>
      IF Verdict THEN mcall.mapping # <<>> /\ mcall.original = <<>>
      ELSE /\ mcall.original = <<mcall.attr, mcall.args>>
           /\ mcall.mapping = <<>>
           /\ mcall.backend = <<>>

\* the patch flag of the group an attribute belongs to
GroupFlag(c, a) ==
    CASE a \in OpenAttrs -> ctx[c].patch_open
      [] a \in OsAttrs -> ctx[c].patch_os
      [] a \in PathlibAttrs -> ctx[c].patch_pathlib
      [] OTHER -> ctx[c].patch_shutil

\* C22: while the context is active exactly the attributes of the groups
\* whose patch flag is true are replaced; an attribute of a group whose flag
\* is false stays the original object, and a call of it reaches that original
\* with the caller's arguments and neither the mapping nor the backend.
C22_OnlyFlaggedGroups ==
    /\ ctx[1].depth > 0 =>
         \A a \in Attributes :
           IF GroupFlag(1, a) THEN attrs[a].kind = "patched" ELSE attrs[a] = Original(a)
    /\ (mcall.op = "patched" /\ ~GroupFlag(1, mcall.attr)) =>
         /\ mcall.callee = Original(mcall.attr)
         /\ mcall.original = <<mcall.attr, mcall.args>>
         /\ mcall.decided = <<>> /\ mcall.mapping = <<>> /\ mcall.backend = <<>>

\* only builtins.open is patched, and os.path.exists is called on a path the
\* mapper routes
C22_Witness ==
    /\ ctx[1].depth > 0 /\ ctx[1].patch_open /\ ~ctx[1].patch_os
    /\ attrs[<<"builtins", "open">>].kind = "patched"
    /\ mcall.op = "patched" /\ mcall.attr = <<"os.path", "exists">>
    /\ mcall.args = <<StrArg(RoutedFile)>>
    /\ MapPath(mp, StrArg(RoutedFile), "os.path.exists")[1]
    /\ mcall.original = <<mcall.attr, mcall.args>>

\* the decision of the replacement that stands for a path the mapping
\* handed to the backend: by its side for two paths, the only one otherwise
DecisionFor(call) ==
    IF call[1] = "dst" THEN mcall.decided[2][3] ELSE mcall.decided[1][3]

\* the path the mapping handed to the backend in a call it made
HandedPath(call) ==
    IF mcall.attr \in TwoPathAttrs \cup {<<"shutil", "rmtree">>} THEN call[2][2]
    ELSE call[2]

\* C26: for every patched entry point the tag under which the replacement
\* decides is the tag under which the mapping resolves: a call decided as
\* routed is not rejected by the mapping and reaches the backend on exactly
\* the path the mapper returned for that decision, whatever the mapper does
\* with the tag.
C26_DecisionTagResolves ==
    (CalledPatched /\ mcall.mapping # <<>>) =>
      /\ mcall.raised # "ValueError"
      /\ \A i \in 1..Len(mcall.backend) :
           HandedPath(mcall.backend[i]) = DecisionFor(mcall.backend[i])[2]

----------------------------------------------------------------------------
(* Properties of entering and leaving contexts in any order. *)

\* every __enter__ has been matched by an __exit__
AllExited == \A c \in Contexts : ctx[c].entered > 0 => ctx[c].exited = ctx[c].entered

\* C27: for any interleaving of __enter__ and __exit__ on one or more
\* contexts in which every enter is matched by a later exit (exits in
\* non-nested order and the same context entered twice before it exits
\* included), once all contexts have exited every attribute is the original
\* function.
C27_AllExitedAllOriginal ==
    AllExited => \A a \in Attributes : attrs[a] = Original(a)

----------------------------------------------------------------------------
(* Properties of the temp path. *)

\* a directory name, the root written with one separator
Directory(p) == IF Dirname(p) # <<>> /\ AllSlashes(Dirname(p)) THEN <<"/">> ELSE Dirname(p)

\* C23: for every target path, a path with no directory component included,
\* the temp path of an atomic write session lies in the directory of the
\* target and its base name is prefix + basename(target) + suffix.
C23_TempBesideTarget ==
    \A s \in Sessions :
      sess[s].kind # "none" =>
        /\ Directory(sess[s].temp_path) = Directory(sess[s].path)
        /\ Basename(sess[s].temp_path) =
             sess[s].prefix \o Basename(sess[s].path) \o sess[s].suffix

----------------------------------------------------------------------------
(* More properties of the dual-path methods. *)

\* the steps inside the with blocks of shutil_copy
InsideWith == {"copy_open_dst", "copy_read", "copy_write", "copy_close"}

\* C24: in the streamed branches of shutil_copy every stream that was opened
\* is closed when the call has returned or raised, on every exit path: a
\* failed read, a failed write, a failure to open the destination after the
\* source was opened.
C24_StreamsReleased == dual.pc \notin InsideWith => dual.open = {}

\* the source stream was opened on the backend and the local destination
\* could not be opened
C24_Witness ==
    /\ dual.op \in CopyOps /\ dual.src_patch /\ ~dual.dst_patch
    /\ dual.result = "OSError" /\ dual.pc = "idle"
    /\ Len(dual.log) = 2 /\ dual.log[1][1] = "fs.open" /\ dual.log[2][1] = "open"
    /\ dual.cdst \notin DOMAIN lfs
    /\ dual.open = {}

----------------------------------------------------------------------------
(* Properties of the extension registry. *)

\* C25: for any sequence of register_extension calls on one mapping, looking
\* up a name gives the handler of the most recent registration for that
\* name: a registration sets the entry of its name and changes no other
\* entry, no other operation changes the registry, and no entry is removed.
C25_LastRegistrationWins ==
    [][/\ DOMAIN mp.extensions \subseteq DOMAIN mp'.extensions
       /\ mcall'.op = "register" =>
            /\ mcall'.name \in DOMAIN mp'.extensions
            /\ mp'.extensions[mcall'.name] = mcall'.handler
            /\ \A n \in (DOMAIN mp'.extensions) \ {mcall'.name} :
                 n \in DOMAIN mp.extensions /\ mp'.extensions[n] = mp.extensions[n]
       /\ mcall'.op # "register" => mp'.extensions = mp.extensions
       /\ (mcall'.op = "invoke" /\ mcall'.impl = "extension") =>
            mcall'.handler = mp.extensions[mcall'.name]]_vars

\* a name is registered again with another handler while another name holds
\* its own
C25_Witness ==
    /\ mcall.op = "register" /\ mcall.prev # <<>> /\ mcall.prev[1] # mcall.handler
    /\ mp.extensions[mcall.name] = mcall.handler
    /\ \E n \in DOMAIN mp.extensions : n # mcall.name

\* the sides a call of the backend works on
TouchesSrc(call) ==
    call[1] \in {"fs.copy", "fs.mv", "fs.rm", "fs.find"} \/ (call[1] = "fs.open" /\ call[3] = "rb")
TouchesDst(call) ==
    call[1] \in {"fs.copy", "fs.mv", "fs.makedirs"} \/ (call[1] = "fs.open" /\ call[3] = "wb")

\* what the mapper says of the two paths of the call
MapperRoutesSrc ==
    IF dual.op = "shutil_rmtree" THEN Decide(dual.src, "shutil.rmtree")[1]
    ELSE Decide(dual.src, WrapperTag(dual.op) \o ".src")[1]
MapperRoutesDst == Decide(dual.dst, WrapperTag(dual.op) \o ".dst")[1]

\* C28: in shutil_copy, shutil_copytree, shutil_move and shutil_rmtree a
\* backend operation is performed on a path only if the path mapper routes
\* that path, whatever routed flags the caller passed.
C28_BackendOnlyOnRouted ==
    dual.op \in {"shutil_copy", "shutil_copytree", "shutil_move", "shutil_rmtree"} =>
      \A i \in 1..Len(dual.log) :
        /\ TouchesSrc(dual.log[i]) => MapperRoutesSrc
        /\ TouchesDst(dual.log[i]) => MapperRoutesDst

\* the same calls made with the flags the mapper decides, as the patched
\* functions pass them, keep the backend to routed paths
BackendOnlyOnRoutedAsDecided ==
    (/\ dual.op \in {"shutil_copy", "shutil_copytree", "shutil_move", "shutil_rmtree"}
     /\ dual.src_patch = MapperRoutesSrc
     /\ dual.op # "shutil_rmtree" => dual.dst_patch = MapperRoutesDst) =>
      \A i \in 1..Len(dual.log) :
        /\ TouchesSrc(dual.log[i]) => MapperRoutesSrc
        /\ TouchesDst(dual.log[i]) => MapperRoutesDst

\* C29: shutil_move never removes the source unless the content of the source
\* has been written to the destination by the same call, for every
\* combination of the routed flags, both false included.
C29_MoveRemovesOnlyCopied ==
    (dual.op = "shutil_move" /\ Calls(dual, IsRemoval) # {} /\ dual.result = "returned") =>
      /\ dual.ncopied = 1
      /\ DestSnapshot = <<TRUE, dual.pre>>

----------------------------------------------------------------------------
(* Properties of mapping.open. *)

\* a mode that writes: w, a, x or +
WritingMode(mode) ==
    InStr("w", mode) \/ InStr("a", mode) \/ InStr("x", mode) \/ InStr("+", mode)

\* C30: with atomic_writes enabled every routed open in a writing mode (w, a,
\* x or +, text or binary) is served by an atomic write session on the
\* resolved path and a read-only open by a direct backend open of the
\* resolved path; with atomic_writes disabled every open is a direct backend
\* open.
C30_WritesAreAtomic ==
    (/\ mcall.op = "invoke" /\ mcall.name = "open" /\ mcall.impl = "default"
     /\ MapPath(mp, mcall.arg, "open")[1]) =>
      LET resolved == MapPath(mp, mcall.arg, "open")[2]
      IN /\ Len(mcall.backend) = 1
         /\ mcall.backend[1][2] = resolved
         /\ mcall.backend[1][3] = mcall.opts.mode
         /\ IF mp.atomic_writes /\ WritingMode(mcall.opts.mode)
            THEN mcall.backend[1][1] \in {"AtomicTextIOWrapper", "AtomicFileWrapper"}
            ELSE mcall.backend[1][1] = "open"

----------------------------------------------------------------------------
(* A streamed copy that fails part-way. *)

\* the destination file of the running shutil_copy, <<present, content>>
CopyDest ==
    IF dual.dst_patch THEN Snapshot(dual.dst_path)
    ELSE (IF dual.cdst \in DOMAIN lfs THEN <<TRUE, lfs[dual.cdst]>> ELSE <<FALSE, <<>>>>)

\* a copy from a local source to a routed destination raised after it had
\* written at least one chunk and before it had written the last one
StreamedCopyFailed ==
    /\ dual.op \in CopyOps
    /\ ~dual.src_patch /\ dual.dst_patch /\ DstRouted
    /\ dual.pc = "idle"
    /\ dual.result \in {"BackendError", "OSError"}
    /\ dual.nwritten >= 1
    /\ dual.nwritten * ChunkSize < Len(dual.pre)

\* C31: a streamed copy to a routed destination that fails after at least
\* one chunk was written leaves the destination either absent or holding
\* the content it had before the copy, never a part of the source.
C31_FailedCopyLeavesNoPartial ==
    StreamedCopyFailed => (~CopyDest[1] \/ CopyDest = dual.dpre)

----------------------------------------------------------------------------
(* The order of the prefix table. *)

\* what entry i of the table answers for a path it prefixes
EntryAnswer(i, p) ==
    LET rest == LStripSlash(Suffix(p, mp.table[i][1]))
    IN <<TRUE, StrArg(IF mp.table[i][2] # <<>>
                      THEN RStripSlash(mp.table[i][2]) \o <<"/">> \o rest
                      ELSE rest)>>

\* C32: when several entries of the prefix table are prefixes of a path,
\* map_path answers what the first of them in the table's order answers,
\* whatever the lengths of the prefixes, and no later entry changes the
\* answer; a path that no entry prefixes is answered (False, path).
C32_FirstEntryAlone ==
    DictCall =>
      /\ Matching(mcall.arg.s) = {} => mcall.result = <<FALSE, mcall.arg>>
      /\ Cardinality(Matching(mcall.arg.s)) >= 2 =>
           \A i \in Matching(mcall.arg.s) :
             (\A k \in Matching(mcall.arg.s) : i <= k) =>
               mcall.result = EntryAnswer(i, mcall.arg.s)

\* the shorter prefix comes first and decides, the longer one is passed over
C32_Witness ==
    /\ DictCall
    /\ Cardinality(Matching(mcall.arg.s)) = 2
    /\ Len(mp.table[1][1]) < Len(mp.table[2][1])
    /\ mcall.result = EntryAnswer(1, mcall.arg.s)
    /\ mcall.result # EntryAnswer(2, mcall.arg.s)

----------------------------------------------------------------------------
(* The temp path and the target. *)

\* the commit of session s has removed the target and is about to rename
\* the temp object
AfterPreRemoval(s) == sess[s].pc = "close_mv" /\ sess[s].removed

\* the pre-removal of a commit leaves what the session wrote where the
\* rename will look for it
PreRemovalKeepsWritten ==
    \A s \in Sessions :
      AfterPreRemoval(s) =>
        Exists(sess[s].temp_path) /\ Content(sess[s].temp_path) = sess[s].written

\* C33: for every configured prefix and suffix, both empty included, the
\* temp path of a session differs from its target path, and so the removal
\* of the target that precedes the rename of a commit never removes what
\* the session has written.
C33_TempDiffersFromTarget ==
    /\ \A s \in Sessions : sess[s].kind # "none" => sess[s].temp_path # sess[s].path
    /\ PreRemovalKeepsWritten

----------------------------------------------------------------------------
(* A reader of the target during a commit. *)

\* the steps of the commit of close(): atomic.py 56-66
CommitSteps == {"close_exists", "close_rm", "close_mv", "close_cleanup"}

\* session s was opened over an existing target and is in its first commit,
\* or the call that made that commit has just returned
CommitsOverTarget(s) ==
    /\ sess[s].kind # "none" /\ sess[s].pre[1] /\ sess[s].ncommit = 1
    /\ \/ sess[s].pc \in CommitSteps
       \/ /\ sess[s].pc = "ready" /\ last[s].op \in {"close", "exit"}
          /\ ~last[s].wasClosed
          /\ ~(sess[s].kind = "binary" /\ last[s].op = "exit" /\ last[s].exc)

\* C34, as stated: while a session commits over an existing target, the
\* target is present at every step of the commit and holds the old content
\* or all the new content.
C34_ReaderFindsTarget ==
    \A s \in Sessions :
      (CommitsOverTarget(s) /\ sess[s].pc \in CommitSteps) =>
        /\ Exists(sess[s].path)
        /\ \/ Content(sess[s].path) = sess[s].pre[2]
           \/ Content(sess[s].path) = sess[s].written

\* C34, amended: from the start of the commit until close() returns, a reader of the target
\* finds the old content as long as the commit has not removed the target,
\* no file from the removal until the rename, and from the rename on the
\* object the session wrote, which for a byte session holds all that was
\* written; it never finds a part of the old content or a mixture.
C34_ReaderSeesOldGapNew ==
    \A s \in Sessions :
      CommitsOverTarget(s) =>
        \/ ~sess[s].removed /\ Snapshot(sess[s].path) = sess[s].pre
        \/ sess[s].removed /\ ~Exists(sess[s].path)
        \/ /\ sess[s].removed /\ Exists(sess[s].path)
           /\ fsys[sess[s].path] = sess[s].file
           /\ sess[s].kind = "binary" => Content(sess[s].path) = sess[s].written

\* the gap: the target is removed and the rename has not happened yet
C34_Witness ==
    \E s \in Sessions :
      /\ CommitsOverTarget(s)
      /\ sess[s].pc = "close_mv" /\ sess[s].removed
      /\ ~Exists(sess[s].path)
      /\ Exists(sess[s].temp_path)
      /\ sess[s].written # <<>>
      /\ Content(sess[s].temp_path) = sess[s].written

----------------------------------------------------------------------------
(* The existing-destination policy of shutil_copytree. *)

\* a shutil_copytree whose destination root was there when it began
TreeOverExisting == dual.op = "shutil_copytree" /\ dual.dst_existed

\* the files under the source root, as the tree copy lists them
SourceListing ==
    IF dual.src_patch THEN BackendRelativeFiles(dual.root_src)
    ELSE LocalRelativeFiles(dual.src)

\* the calls that create a directory
IsMakedirs(call) == call[1] \in {"fs.makedirs", "os.makedirs"}

\* the step that creates the destination root of a tree copy over an
\* existing destination: with dirs_exist_ok false it raises and changes no
\* store; with dirs_exist_ok true it does not raise for the directory
MkRootStep ==
    (TreeOverExisting /\ dual.pc = "tree_mkroot") =>
      IF dual.dirs_exist_ok
      THEN dual'.pc = "tree_list" \/ dual'.result \in {"BackendError", "OSError"}
      ELSE /\ dual'.pc = "idle" /\ dual'.result = "FileExistsError"
           /\ fsys' = fsys /\ data' = data /\ lfs' = lfs

\* with dirs_exist_ok false no file is ever copied and the only call made
\* is the makedirs of the root; with dirs_exist_ok true every file under
\* the source root has been handed to shutil_copy2 when the call returns,
\* and (for flags as the mapper decides and a mapper that does not route
\* its own results) is then at the destination
OverExistingOutcome ==
    TreeOverExisting =>
      IF dual.dirs_exist_ok
      THEN dual.result = "returned" =>
             /\ Cardinality(Calls(dual, IsMakedirs)) = 1 + Len(SourceListing)
             /\ (/\ FlagsAsDecided /\ (dual.src_patch \/ dual.dst_patch)
                 /\ mp.table # SelfMatchingTable) => TreeCopied
      ELSE /\ dual.ncopied = 0
           /\ Len(dual.log) <= 1
           /\ dual.result \in {"none", "FileExistsError"}

\* C35: shutil_copytree on a destination root that is already there raises,
\* with dirs_exist_ok false, before any file is copied and leaves the
\* destination as it was; with dirs_exist_ok true it goes on and copies the
\* files.
C35_ExistingDestinationPolicy == []OverExistingOutcome /\ [][MkRootStep]_vars

C35_Witness ==
    /\ TreeOverExisting /\ ~dual.dirs_exist_ok
    /\ dual.dst_patch /\ DstRouted
    /\ dual.result = "FileExistsError"
    /\ dual.ncopied = 0
    /\ Snapshot(Join(dual.root_dst, OldTreeFile))[1]
    /\ \A rel \in TreeFiles : ~Snapshot(Join(dual.root_dst, rel))[1]

\* the other half: the copy went ahead over the existing root
TreeCopiedOverExisting ==
    /\ TreeOverExisting /\ dual.dirs_exist_ok
    /\ FlagsAsDecided /\ dual.dst_patch /\ ~dual.src_patch
    /\ TreeCopied
    /\ Snapshot(Join(dual.root_dst, OldTreeFile))[1]

----------------------------------------------------------------------------
(* shutil_move of a directory. *)

\* the source root of a move, where the method looks for it
MoveSourceRoot ==
    IF dual.src_patch THEN Resolved(dual.src, "shutil.move.src") ELSE dual.src

\* a move of a directory with exactly one side routed has ended
MixedDirectoryMoveEnded ==
    /\ dual.op = "shutil_move"
    /\ dual.src \in SrcDirs
    /\ FlagsAsDecided
    /\ dual.src_patch # dual.dst_patch
    /\ dual.pc = "idle"

\* C36: on stores that raise for no outside reason, a shutil_move of a
\* directory with exactly one side routed copies, then removes the source
\* recursively: when the call has ended nothing of the source tree is left,
\* whether the source is the routed side or the unrouted side.
C36_MoveRemovesSourceTree ==
    MixedDirectoryMoveEnded =>
      /\ dual.result = "returned"
      /\ ~DirExists(dual.src_patch, MoveSourceRoot)

----------------------------------------------------------------------------
(* map_path as a function of its inputs. *)

\* a call of map_path under the identity or a prefix-table configuration
\* that follows a call with the same value
RepeatedCall ==
    /\ mcall.op = "map_path"
    /\ mp.kind \in {"identity", "dict"}
    /\ mcall.prev # <<>>
    /\ mcall.prev[1] = mcall.arg

\* a call of map_path leaves the mapper's configuration, the extension
\* registry and the stores as they are
MapPathChangesNothing ==
    (mcall' # mcall) =>
      (mp' = mp /\ fsys' = fsys /\ data' = data /\ lfs' = lfs)

\* C37: under the identity and prefix-table configurations two calls of
\* map_path with the same path return the same decision, whatever the
\* operation tags of the two calls and whatever the registry and the
\* backend hold at each call; and a call changes neither the mapper's
\* configuration nor the extension registry nor the backend.
C37_MapPathIsPure ==
    [](RepeatedCall => mcall.result = mcall.prev[3]) /\ [][MapPathChangesNothing]_vars

\* the same path routed under two tags, with an extension registered and a
\* backend object created between the two calls
C37_Witness ==
    /\ RepeatedCall
    /\ mp.kind = "dict"
    /\ mcall.result[1]
    /\ mcall.tag # mcall.prev[2]
    /\ mcall.prev[4][1] # mcall.at[1]
    /\ mcall.prev[4][2] # mcall.at[2]

====
